---- MODULE Spec2Model ----
(***************************************************************************)
(* TSI conversion microservice (avantlehq/tsi-ai, conversion-service).     *)
(*                                                                         *)
(* Text is modelled as a sequence of one-character strings, so that        *)
(* escaping, joining and counting act on characters as the Python code     *)
(* does.  A Python dict is a function whose DOMAIN is the set of its keys; *)
(* d.get(k, default) is Get(d, k, default).  An exception raised by a      *)
(* writer is a record with ok = FALSE.                                     *)
(***************************************************************************)
EXTENDS Integers, Sequences, FiniteSets, TLC

VARIABLES
    job_storage,   \* main.py: job_storage, job id -> stored record
    stored_files,  \* file_handler: set of <<job id, sanitized filename>> on disk
    generated,     \* job ids generated so far (each is fresh: time + uuid)
    returned,      \* history: job ids returned in a successful response
    request,       \* the request being answered
    response,      \* the HTTP response the caller sees
    args,          \* arguments of the library call under check
    ret            \* its result

vars == <<job_storage, stored_files, generated, returned, request, response, args, ret>>

(***************************************************************************)
(* Bounds of the model.                                                    *)
(***************************************************************************)
MaxJobs == 2        \* job ids generated in one run of the service
MaxTextLen == 3     \* length of the texts given to escape
MaxServices == 2    \* length of a services list
MaxStations == 2    \* length of a stations list

(***************************************************************************)
(* Python helpers.                                                         *)
(***************************************************************************)
None == [none |-> TRUE]

\* A value that may be None is None or Some(v).
Some(v) == [some |-> v]

Get(d, k, default) == IF k \in DOMAIN d THEN d[k] ELSE default

Min(a, b) == IF a < b THEN a ELSE b

\* s[:n]
Prefix(s, n) == SubSeq(s, 1, Min(n, Len(s)))

RECURSIVE Concat(_)
\* ''.join(parts)
Concat(parts) ==
    IF parts = <<>> THEN <<>> ELSE Head(parts) \o Concat(Tail(parts))

RECURSIVE Join(_, _)
\* sep.join(parts)
Join(sep, parts) ==
    IF parts = <<>> THEN <<>>
    ELSE IF Len(parts) = 1 THEN Head(parts)
    ELSE Head(parts) \o sep \o Join(sep, Tail(parts))

RECURSIVE Replace(_, _, _)
\* value.replace(old, new) for a one-character old
Replace(value, old, new) ==
    IF value = <<>> THEN <<>>
    ELSE (IF Head(value) = old THEN new ELSE <<Head(value)>>)
             \o Replace(Tail(value), old, new)

\* value.count(ch) for a one-character ch
Count(value, ch) == Cardinality({i \in 1..Len(value) : value[i] = ch})

DigitChars == <<"0", "1", "2", "3", "4", "5", "6", "7", "8", "9">>

Digits == {DigitChars[i] : i \in 1..10}

RECURSIVE Str(_)
\* str(n) for an int n >= 0
Str(n) ==
    IF n < 10 THEN <<DigitChars[n + 1]>>
    ELSE Str(n \div 10) \o <<DigitChars[(n % 10) + 1]>>

\* value.isdigit()
IsDigit(value) == value # <<>> /\ \A i \in 1..Len(value) : value[i] \in Digits

\* value.ljust(width, fill)
LJust(value, width, fill) ==
    value \o [i \in 1..(IF Len(value) < width THEN width - Len(value) ELSE 0) |-> fill]

\* Results of a call that may raise.
Ok(v) == [ok |-> TRUE, value |-> v]

\* raise ValueError(f"{msg}{arg}")
ValueError(msg, arg) == [ok |-> FALSE, exc |-> "ValueError", msg |-> msg, arg |-> arg]

(***************************************************************************)
(* EDIFACT writer (edifact_writer.py).                                     *)
(***************************************************************************)
\* Sep dataclass.
Sep(comp, elem, dec, rel, sg) ==
    [comp |-> comp, elem |-> elem, dec |-> dec, rel |-> rel, seg |-> sg]

\* escape(value, s): four successive replace calls, release character first.
escape(value, s) ==
    LET r1 == Replace(value, s.rel, <<s.rel, s.rel>>)
        r2 == Replace(r1, s.seg, <<s.rel, s.seg>>)
        r3 == Replace(r2, s.elem, <<s.rel, s.elem>>)
        r4 == Replace(r3, s.comp, <<s.rel, s.comp>>)
    IN  r4

\* The two shapes of an element handed to seg.
Simple(v) == [composite |-> FALSE, value |-> v]

Composite(parts) == [composite |-> TRUE, parts |-> parts]

\* seg(tag, elements, s)
seg(tag, elements, s) ==
    LET processed_elements == [i \in 1..Len(elements) |->
            IF elements[i].composite
            THEN Join(<<s.comp>>, elements[i].parts)
            ELSE escape(elements[i].value, s)]
    IN  tag \o <<s.elem>> \o Join(<<s.elem>>, processed_elements) \o <<s.seg>>

\* ord(c) for the characters the model's documents use.
OrdTable ==
    <<<<"0", 48>>, <<"1", 49>>, <<"2", 50>>, <<"3", 51>>, <<"4", 52>>,
      <<"5", 53>>, <<"6", 54>>, <<"7", 55>>, <<"8", 56>>, <<"9", 57>>,
      <<"A", 65>>, <<"B", 66>>, <<"C", 67>>, <<"D", 68>>, <<"E", 69>>,
      <<"F", 70>>, <<"N", 78>>, <<"R", 82>>, <<"S", 83>>, <<"T", 84>>,
      <<"U", 85>>, <<"V", 86>>, <<"a", 97>>, <<"b", 98>>, <<"c", 99>>,
      <<"e", 101>>, <<"n", 110>>, <<"r", 114>>, <<"s", 115>>, <<"t", 116>>,
      <<"x", 120>>, <<":", 58>>, <<"+", 43>>, <<".", 46>>, <<"?", 63>>,
      <<"'", 39>>, <<" ", 32>>, <<"-", 45>>, <<"_", 95>>, <<"/", 47>>,
      <<"*", 42>>>>

Ord(c) ==
    IF \E i \in 1..Len(OrdTable) : OrdTable[i][1] = c
    THEN OrdTable[CHOOSE i \in 1..Len(OrdTable) : OrdTable[i][1] = c][2]
    ELSE 0

HexChars == <<"0", "1", "2", "3", "4", "5", "6", "7", "8", "9",
              "A", "B", "C", "D", "E", "F">>

RECURSIVE WeightedSum(_, _, _)
WeightedSum(text, j, k) ==
    IF j > Len(text) THEN 0
    ELSE Ord(text[j]) * (j + k) + WeightedSum(text, j + 1, k)

\* hashlib.sha1(hash_input).hexdigest()[:12].upper(): SHA-1 itself is library
\* code; what is kept is that the digest is a function of the bytes hashed and
\* that the result is 12 characters of 0-9A-F.
Sha1Hex12(hash_input) ==
    [k \in 1..12 |-> HexChars[(WeightedSum(hash_input, 1, k) % 16) + 1]]

\* A variant of generate_deterministic_ref that also feeds the publisher's
\* fixed_timestamp to the digest.
generate_deterministic_ref_hashes_timestamp(publisher, version) ==
    LET name == Get(publisher, "name", <<>>)
        url == Get(publisher, "url", <<>>)
        hash_input == name \o <<"-">> \o url \o <<"-">> \o version
                           \o Get(publisher, "fixed_timestamp", <<>>)
    IN  Sha1Hex12(hash_input)

\* generate_deterministic_ref(publisher, version)
generate_deterministic_ref(publisher, version) ==
    LET name == Get(publisher, "name", <<>>)
        url == Get(publisher, "url", <<>>)
        hash_input == name \o <<"-">> \o url \o <<"-">> \o version
    IN  Sha1Hex12(hash_input)

DefaultTimestamp == <<"2", "4", "0", "1", "0", "1", ":", "0", "0", "0", "0">>

\* make_unb(sender_id, receiver_id, interchange_ref, timestamp, s)
make_unb(sender_id, receiver_id, interchange_ref, timestamp, s) ==
    LET ts == IF timestamp = None THEN Simple(DefaultTimestamp)
              ELSE Simple(timestamp.some)
    IN  seg(<<"U", "N", "B">>,
            <<Composite(<< <<"U", "N", "O", "C">>, <<"3">> >>),
              Simple(sender_id), Simple(receiver_id), ts, Simple(interchange_ref)>>,
            s)

\* make_unh(message_ref, message_type, version, s)
make_unh(message_ref, message_type, version, s) ==
    seg(<<"U", "N", "H">>,
        <<Simple(message_ref),
          Composite(<<message_type, <<"D">>, <<"0", "3", "B">>, <<"U", "N">>,
                      <<"I", "A", "T", "A">>, version>>)>>,
        s)

\* make_unt(segment_count, message_ref, s)
make_unt(segment_count, message_ref, s) ==
    seg(<<"U", "N", "T">>, <<Simple(Str(segment_count)), Simple(message_ref)>>, s)

\* make_unz(message_count, interchange_ref, s)
make_unz(message_count, interchange_ref, s) ==
    seg(<<"U", "N", "Z">>, <<Simple(Str(message_count)), Simple(interchange_ref)>>, s)

\* "if lat and lon" for station.get('lat', ''): an absent coordinate is '',
\* a present one is a number, falsy when it is 0.
TruthyCoord(station, k) == k \in DOMAIN station /\ station[k] # 0

\* Segments of one station in map_tsdupd_segments.
station_segments(station, s) ==
    LET station_id == Get(station, "id", <<>>)
        station_name == Get(station, "name", <<>>)
        loc == seg(<<"L", "O", "C">>,
                   <<Simple(<<"8", "8">>), Simple(station_id), Simple(<<>>),
                     Simple(<<>>), Simple(station_name)>>, s)
    IN  IF TruthyCoord(station, "lat") /\ TruthyCoord(station, "lon")
        THEN <<loc, seg(<<"G", "I", "S">>,
                        <<Simple(<<"1">>), Simple(Str(station.lat)),
                          Simple(Str(station.lon))>>, s)>>
        ELSE <<loc>>

RECURSIVE map_tsdupd_segments(_, _)
\* map_tsdupd_segments(stations, s)
map_tsdupd_segments(stations, s) ==
    IF stations = <<>> THEN <<>>
    ELSE station_segments(Head(stations), s) \o map_tsdupd_segments(Tail(stations), s)

\* _format_time_for_dtm(time_str)
_format_time_for_dtm(time_str) ==
    IF time_str = <<>> THEN <<>>
    ELSE LJust(Replace(time_str, ":", <<>>), 4, "0")

\* "if any(dow_pattern)" and the bits of one calendar.
DayNames == <<"monday", "tuesday", "wednesday", "thursday", "friday", "saturday", "sunday">>

dow_pattern(calendar) == [i \in 1..7 |-> Get(calendar, DayNames[i], FALSE)]

\* A variant of dow_bits that writes the days in Sunday..Saturday order.
dow_bits_sunday_first(calendar) ==
    [i \in 1..7 |-> IF dow_pattern(calendar)[((i + 5) % 7) + 1] THEN "1" ELSE "0"]

dow_bits(calendar) == [i \in 1..7 |-> IF dow_pattern(calendar)[i] THEN "1" ELSE "0"]

\* A calendar bound is emitted when it is 8 digits.
date_segments(calendar, key, qualifier, s) ==
    LET date == Get(calendar, key, <<>>)
    IN  IF date # <<>> /\ Len(date) = 8 /\ IsDigit(date)
        THEN <<seg(<<"D", "T", "M">>,
                   <<Composite(<<qualifier, date, <<"1", "0", "2">> >>)>>, s)>>
        ELSE <<>>

\* Body of "for variant in variants" in map_skdupd_segments.
variant_segments(variant, s) ==
    LET service_id == Get(variant, "service_id", Get(variant, "id", <<>>))
        calendar == Get(variant, "calendar", <<>>)
        rff == IF service_id # <<>>
               THEN <<seg(<<"R", "F", "F">>,
                          <<Composite(<< <<"S", "R", "V">>, service_id>>)>>, s)>>
               ELSE <<>>
        ftx == IF \E i \in 1..7 : dow_pattern(calendar)[i]
               THEN <<seg(<<"F", "T", "X">>,
                          <<Simple(<<"C", "D", "V">>), Simple(<<>>), Simple(<<>>),
                            Simple(dow_bits(calendar))>>, s)>>
               ELSE <<>>
    IN  rff \o date_segments(calendar, "start_date", <<"3", "2", "4">>, s)
            \o date_segments(calendar, "end_date", <<"3", "2", "5">>, s)
            \o ftx

\* Body of "for call in calls" in map_skdupd_segments.
call_segments(call, s) ==
    LET station_uic == Get(call, "station_id", <<>>)
        arr_time == Get(call, "arrival_time", <<>>)
        dep_time == Get(call, "departure_time", <<>>)
        day_offset == Get(call, "day_offset", 0)
        loc == IF station_uic # <<>>
               THEN <<seg(<<"L", "O", "C">>, <<Simple(<<"9", "2">>), Simple(station_uic)>>, s)>>
               ELSE <<>>
        arr == IF arr_time # <<>>
               THEN <<seg(<<"D", "T", "M">>,
                          <<Composite(<< <<"1", "3", "2">>, _format_time_for_dtm(arr_time),
                                         <<"1", "0", "5">> >>)>>, s)>>
               ELSE <<>>
        dep == IF dep_time # <<>>
               THEN <<seg(<<"D", "T", "M">>,
                          <<Composite(<< <<"1", "3", "3">>, _format_time_for_dtm(dep_time),
                                         <<"1", "0", "5">> >>)>>, s)>>
               ELSE <<>>
        off == IF day_offset # 0 /\ day_offset > 0
               THEN <<seg(<<"D", "T", "M">>,
                          <<Composite(<< <<"9", "9", "7">>, Str(day_offset),
                                         <<"9", "0", "0">> >>)>>, s)>>
               ELSE <<>>
    IN  loc \o arr \o dep \o off

RECURSIVE FlatMap(_, _, _)
\* The segments appended over one "for x in xs" loop.
FlatMap(Op(_, _), xs, s) ==
    IF xs = <<>> THEN <<>> ELSE Op(Head(xs), s) \o FlatMap(Op, Tail(xs), s)

RECURSIVE carrier_name_of(_, _)
\* The agency lookup loop: the name of the first agency whose id is the carrier.
carrier_name_of(agencies, carrier_uic) ==
    IF agencies = <<>> THEN <<>>
    ELSE IF "id" \in DOMAIN Head(agencies) /\ Head(agencies).id = carrier_uic
         THEN Get(Head(agencies), "name", <<>>)
         ELSE carrier_name_of(Tail(agencies), carrier_uic)

\* train_number = service.get('train_number', service.get('route_short_name', service.get('id', '')))
train_number_of(service) ==
    Get(service, "train_number", Get(service, "route_short_name", Get(service, "id", <<>>)))

\* headsign = service.get('headsign') or service.get('route_long_name')
headsign_of(service) ==
    IF Get(service, "headsign", <<>>) # <<>> THEN service.headsign
    ELSE Get(service, "route_long_name", <<>>)

\* Segments of one service, given the carriers already seen.
service_segments(agencies, service, carriers_used, s) ==
    LET carrier_uic == Get(service, "agency_id", <<>>)
        nad == IF carrier_uic # <<>> /\ carrier_uic \notin carriers_used
               THEN <<seg(<<"N", "A", "D">>,
                          <<Simple(<<"C", "A">>), Simple(carrier_uic), Simple(<<>>),
                            Simple(carrier_name_of(agencies, carrier_uic))>>, s)>>
               ELSE <<>>
        tdt == <<seg(<<"T", "D", "T">>,
                     <<Simple(<<"2", "0">>), Simple(train_number_of(service))>>, s)>>
        headsign == headsign_of(service)
        ftx == IF headsign # <<>>
               THEN <<seg(<<"F", "T", "X">>,
                          <<Simple(<<"A", "A", "I">>), Simple(<<>>), Simple(<<>>),
                            Simple(headsign)>>, s)>>
               ELSE <<>>
    IN  nad \o tdt \o ftx
            \o FlatMap(variant_segments, Get(service, "variants", <<>>), s)
            \o FlatMap(call_segments, Get(service, "calls", <<>>), s)

RECURSIVE skdupd_loop_forgets_carriers(_, _, _, _)
\* A variant of skdupd_loop that never records a carrier as used.
skdupd_loop_forgets_carriers(agencies, services, carriers_used, s) ==
    IF services = <<>> THEN <<>>
    ELSE service_segments(agencies, Head(services), {}, s)
             \o skdupd_loop_forgets_carriers(agencies, Tail(services), {}, s)

RECURSIVE skdupd_loop(_, _, _, _)
skdupd_loop(agencies, services, carriers_used, s) ==
    IF services = <<>> THEN <<>>
    ELSE LET carrier_uic == Get(Head(services), "agency_id", <<>>)
         IN  service_segments(agencies, Head(services), carriers_used, s)
                 \o skdupd_loop(agencies, Tail(services),
                                IF carrier_uic # <<>>
                                THEN carriers_used \cup {carrier_uic}
                                ELSE carriers_used, s)

\* map_skdupd_segments(agencies, services, s)
map_skdupd_segments(agencies, services, s) == skdupd_loop(agencies, services, {}, s)

\* "len(una) != 9 or not una.startswith('UNA')"
InvalidUna(una) == Len(una) # 9 \/ Prefix(una, 3) # <<"U", "N", "A">>

\* Sep(comp=una[3], elem=una[4], dec=una[5], rel=una[6], seg=una[8]), 0-indexed.
ParseUna(una) == Sep(una[4], una[5], una[6], una[7], una[9])

DefaultUna == <<"U", "N", "A", ":", "+", ".", "?", " ", "'">>

VersionCurrent == <<"C", "U", "R", "R", "E", "N", "T">>

\* fixed_timestamp = publisher.get('fixed_timestamp');
\* timestamp = fixed_timestamp if fixed_timestamp else "240101:0000"
timestamp_of(publisher) ==
    IF Get(publisher, "fixed_timestamp", <<>>) # <<>>
    THEN publisher.fixed_timestamp ELSE DefaultTimestamp

\* sender_id = publisher.get('name', 'SENDER')[:35]
sender_id_of(publisher) == Prefix(Get(publisher, "name", <<"S", "E", "N", "D", "E", "R">>), 35)

Receiver == <<"R", "E", "C", "E", "I", "V", "E", "R">>

\* A variant of segment_count_of that counts only one service segment.
segment_count_off_by_one(body_segments) == Len(body_segments) + 1

\* segment_count = len(body_segments) + 2
segment_count_of(body_segments) == Len(body_segments) + 2

\* A variant of interchange_segments whose UNT segment carries the interchange
\* reference without the message suffix.
interchange_segments_unt_bare_ref(json_data, message_type, body_segments, version, una, s) ==
    LET publisher == Get(json_data, "publisher", <<>>)
        interchange_ref == generate_deterministic_ref(publisher, version)
        message_ref == interchange_ref \o <<"0", "1">>
        timestamp == timestamp_of(publisher)
    IN  <<una,
          make_unb(sender_id_of(publisher), Receiver, interchange_ref, Some(timestamp), s),
          make_unh(message_ref, message_type, version, s)>>
        \o body_segments
        \o <<make_unt(segment_count_of(body_segments), interchange_ref, s),
             make_unz(1, interchange_ref, s)>>

\* The list "segments" that a writer joins: UNA, UNB, UNH, body, UNT, UNZ.
interchange_segments(json_data, message_type, body_segments, version, una, s) ==
    LET publisher == Get(json_data, "publisher", <<>>)
        interchange_ref == generate_deterministic_ref(publisher, version)
        message_ref == interchange_ref \o <<"0", "1">>
        timestamp == timestamp_of(publisher)
    IN  <<una,
          make_unb(sender_id_of(publisher), Receiver, interchange_ref, Some(timestamp), s),
          make_unh(message_ref, message_type, version, s)>>
        \o body_segments
        \o <<make_unt(segment_count_of(body_segments), message_ref, s),
             make_unz(1, interchange_ref, s)>>

\* The first failing check of write_tsdupd, or None.
tsdupd_error(json_data, una) ==
    IF InvalidUna(una) THEN ValueError("Invalid UNA string: ", una)
    ELSE IF "stations" \notin DOMAIN json_data
         THEN ValueError("Missing required 'stations' data", <<>>)
    ELSE IF json_data.stations = <<>>
         THEN ValueError("Stations list cannot be empty", <<>>)
    ELSE None

\* The list of segments write_tsdupd builds before joining it.
tsdupd_segments(json_data, version, una) ==
    LET s == ParseUna(una)
    IN  interchange_segments(json_data, <<"T", "S", "D", "U", "P", "D">>,
                             map_tsdupd_segments(json_data.stations, s), version, una, s)

\* write_tsdupd(json_data, version=..., una=...)
write_tsdupd(json_data, version, una) ==
    IF tsdupd_error(json_data, una) # None THEN tsdupd_error(json_data, una)
    ELSE Ok(Concat(tsdupd_segments(json_data, version, una)))

\* A variant of skdupd_error that looks at the lists before the UNA string.
skdupd_error_lists_first(json_data, una) ==
    IF "agencies" \notin DOMAIN json_data
    THEN ValueError("Missing required 'agencies' data", <<>>)
    ELSE IF "services" \notin DOMAIN json_data
         THEN ValueError("Missing required 'services' data", <<>>)
    ELSE IF json_data.agencies = <<>>
         THEN ValueError("Agencies list cannot be empty", <<>>)
    ELSE IF json_data.services = <<>>
         THEN ValueError("Services list cannot be empty", <<>>)
    ELSE IF InvalidUna(una) THEN ValueError("Invalid UNA string: ", una)
    ELSE None

\* The first failing check of write_skdupd, or None.
skdupd_error(json_data, una) ==
    IF InvalidUna(una) THEN ValueError("Invalid UNA string: ", una)
    ELSE IF "agencies" \notin DOMAIN json_data
         THEN ValueError("Missing required 'agencies' data", <<>>)
    ELSE IF "services" \notin DOMAIN json_data
         THEN ValueError("Missing required 'services' data", <<>>)
    ELSE IF json_data.agencies = <<>>
         THEN ValueError("Agencies list cannot be empty", <<>>)
    ELSE IF json_data.services = <<>>
         THEN ValueError("Services list cannot be empty", <<>>)
    ELSE None

\* The list of segments write_skdupd builds before joining it.
skdupd_segments(json_data, version, una) ==
    LET s == ParseUna(una)
    IN  interchange_segments(json_data, <<"S", "K", "D", "U", "P", "D">>,
                             map_skdupd_segments(json_data.agencies, json_data.services, s),
                             version, una, s)

\* write_skdupd(json_data, version=..., una=...)
write_skdupd(json_data, version, una) ==
    IF skdupd_error(json_data, una) # None THEN skdupd_error(json_data, una)
    ELSE Ok(Concat(skdupd_segments(json_data, version, una)))

(***************************************************************************)
(* GTFS writer (gtfs_writer.py).  A generated file is its data rows in     *)
(* order, each row the tuple of values handed to csv.writer.writerow (the  *)
(* header row is the same for every input and is left out); a number in a  *)
(* row is written as str(number).                                          *)
(***************************************************************************)
RECURSIVE MapRows(_, _)
\* The rows written by one "for x in xs: writer.writerow(Row(x))" loop.
MapRows(Row(_), xs) ==
    IF xs = <<>> THEN <<>> ELSE <<Row(Head(xs))>> \o MapRows(Row, Tail(xs))

\* d.get(k, n) for a numeric field, as csv writes it.
GetNum(d, k, n) == Str(Get(d, k, n))

agency_row(agency) ==
    <<Get(agency, "id", <<>>), Get(agency, "name", <<>>), Get(agency, "url", <<>>),
      Get(agency, "timezone",
          <<"E", "u", "r", "o", "p", "e", "/", "B", "r", "a", "t", "i", "s", "l", "a", "v", "a">>),
      Get(agency, "lang", <<>>), Get(agency, "phone", <<>>), Get(agency, "email", <<>>)>>

\* _generate_agency_file(agencies)
_generate_agency_file(agencies) == MapRows(agency_row, agencies)

station_row(station) ==
    <<Get(station, "id", <<>>), Get(station, "code", <<>>), Get(station, "name", <<>>),
      Get(station, "desc", <<>>),
      IF "lat" \in DOMAIN station THEN Str(station.lat) ELSE <<>>,
      IF "lon" \in DOMAIN station THEN Str(station.lon) ELSE <<>>,
      Get(station, "zone_id", <<>>), Get(station, "url", <<>>),
      GetNum(station, "location_type", 0), Get(station, "parent_station", <<>>),
      GetNum(station, "wheelchair_boarding", 0)>>

\* _generate_stops_file(stations)
_generate_stops_file(stations) == MapRows(station_row, stations)

route_row(service) ==
    <<Get(service, "id", <<>>), Get(service, "agency_id", <<>>),
      Get(service, "route_short_name", <<>>), Get(service, "route_long_name", <<>>),
      Get(service, "route_desc", <<>>), GetNum(service, "route_type", 3),
      Get(service, "route_url", <<>>), Get(service, "route_color", <<>>),
      Get(service, "route_text_color", <<>>)>>

\* _generate_routes_file(services, agencies)
_generate_routes_file(services, agencies) == MapRows(route_row, services)

RECURSIVE AllVariants(_)
\* The variants of all services in document order, each with its service:
\* the order in which the nested loops of the generators visit them.
AllVariants(services) ==
    IF services = <<>> THEN <<>>
    ELSE LET service == Head(services)
             variants == Get(service, "variants", <<>>)
         IN  [i \in 1..Len(variants) |-> [service |-> service, variant |-> variants[i]]]
                 \o AllVariants(Tail(services))

Date20240101 == <<"2", "0", "2", "4", "0", "1", "0", "1">>

Date20241231 == <<"2", "0", "2", "4", "1", "2", "3", "1">>

calendar_row(variant) ==
    LET calendar == Get(variant, "calendar", <<>>)
    IN  <<Get(variant, "id", <<>>)>>
        \o [i \in 1..7 |-> IF Get(calendar, DayNames[i], FALSE) THEN <<"1">> ELSE <<"0">>]
        \o <<Get(calendar, "start_date", Date20240101),
             Get(calendar, "end_date", Date20241231)>>

RECURSIVE calendar_loop_every_variant(_, _)
\* A variant of calendar_loop that writes a row for every variant with an id.
calendar_loop_every_variant(pairs, calendar_services) ==
    IF pairs = <<>> THEN <<>>
    ELSE IF Get(Head(pairs).variant, "id", <<>>) # <<>>
         THEN <<calendar_row(Head(pairs).variant)>>
                  \o calendar_loop_every_variant(Tail(pairs), calendar_services)
         ELSE calendar_loop_every_variant(Tail(pairs), calendar_services)

RECURSIVE calendar_loop(_, _)
calendar_loop(pairs, calendar_services) ==
    IF pairs = <<>> THEN <<>>
    ELSE LET variant == Head(pairs).variant
             service_id == Get(variant, "id", <<>>)
         IN  IF service_id # <<>> /\ service_id \notin calendar_services
             THEN <<calendar_row(variant)>>
                      \o calendar_loop(Tail(pairs), calendar_services \cup {service_id})
             ELSE calendar_loop(Tail(pairs), calendar_services)

\* _generate_calendar_file(services)
_generate_calendar_file(services) == calendar_loop(AllVariants(services), {})

\* trip_id = f"{route_id}_{trip_counter}"
trip_id_of(service, trip_counter) ==
    Get(service, "id", <<>>) \o <<"_">> \o Str(trip_counter)

\* A variant of _generate_trips_file whose counter restarts at each service.
trips_counter_per_service(services) ==
    LET pairs == AllVariants(services)
    IN  [n \in 1..Len(pairs) |->
            <<Get(pairs[n].service, "id", <<>>), Get(pairs[n].variant, "id", <<>>),
              trip_id_of(pairs[n].service,
                         Cardinality({m \in 1..n : pairs[m].service = pairs[n].service})),
              Get(pairs[n].service, "route_long_name", <<>>),
              Get(pairs[n].service, "route_short_name", <<>>),
              <<"0">>, <<>>, <<"0">>, <<"0">> >>]

\* _generate_trips_file(services): the n-th variant visited gets counter n.
_generate_trips_file(services) ==
    LET pairs == AllVariants(services)
    IN  [n \in 1..Len(pairs) |->
            <<Get(pairs[n].service, "id", <<>>), Get(pairs[n].variant, "id", <<>>),
              trip_id_of(pairs[n].service, n),
              Get(pairs[n].service, "route_long_name", <<>>),
              Get(pairs[n].service, "route_short_name", <<>>),
              <<"0">>, <<>>, <<"0">>, <<"0">> >>]

stop_time_row(trip_id, call) ==
    <<trip_id, Get(call, "arrival_time", <<>>), Get(call, "departure_time", <<>>),
      Get(call, "station_id", <<>>), GetNum(call, "stop_sequence", 1),
      Get(call, "stop_headsign", <<>>), GetNum(call, "pickup_type", 0),
      GetNum(call, "drop_off_type", 0), GetNum(call, "timepoint", 1)>>

RECURSIVE stop_times_loop(_, _)
stop_times_loop(pairs, trip_counter) ==
    IF pairs = <<>> THEN <<>>
    ELSE LET service == Head(pairs).service
             calls == Get(service, "calls", <<>>)
             trip_id == trip_id_of(service, trip_counter + 1)
         IN  [i \in 1..Len(calls) |-> stop_time_row(trip_id, calls[i])]
                 \o stop_times_loop(Tail(pairs), trip_counter + 1)

\* _generate_stop_times_file(services)
_generate_stop_times_file(services) == stop_times_loop(AllVariants(services), 0)

RECURSIVE LessThan(_, _)
\* a < b on str: lexicographic by code point.
LessThan(a, b) ==
    IF b = <<>> THEN FALSE
    ELSE IF a = <<>> THEN TRUE
    ELSE IF Ord(Head(a)) # Ord(Head(b)) THEN Ord(Head(a)) < Ord(Head(b))
    ELSE LessThan(Tail(a), Tail(b))

\* min(a, b) and max(a, b) on str
StrMin(a, b) == IF LessThan(b, a) THEN b ELSE a

StrMax(a, b) == IF LessThan(a, b) THEN b ELSE a

RECURSIVE feed_start(_, _)
feed_start(pairs, start_date) ==
    IF pairs = <<>> THEN start_date
    ELSE LET calendar == Get(Head(pairs).variant, "calendar", <<>>)
         IN  feed_start(Tail(pairs),
                        IF Get(calendar, "start_date", <<>>) # <<>>
                        THEN StrMin(start_date, calendar.start_date) ELSE start_date)

RECURSIVE feed_end(_, _)
feed_end(pairs, end_date) ==
    IF pairs = <<>> THEN end_date
    ELSE LET calendar == Get(Head(pairs).variant, "calendar", <<>>)
         IN  feed_end(Tail(pairs),
                      IF Get(calendar, "end_date", <<>>) # <<>>
                      THEN StrMax(end_date, calendar.end_date) ELSE end_date)

\* _generate_feed_info_file(json_data); today is datetime.now().strftime('%Y%m%d')
_generate_feed_info_file(json_data, today) ==
    LET publisher == Get(json_data, "publisher", <<>>)
        pairs == AllVariants(Get(json_data, "services", <<>>))
    IN  << <<Get(publisher, "name",
                 <<"T", "S", "I", " ", "D", "a", "t", "a", " ",
                   "P", "u", "b", "l", "i", "s", "h", "e", "r">>),
             Get(publisher, "url", <<>>), <<"e", "n">>,
             feed_start(pairs, Date20240101), feed_end(pairs, Date20241231),
             today, Get(publisher, "email", <<>>), Get(publisher, "url", <<>>)>> >>

\* A variant of gtfs_error without the check for empty lists.
gtfs_error_missing_only(json_data) ==
    IF "agencies" \notin DOMAIN json_data
    THEN ValueError("Missing required 'agencies' data", <<>>)
    ELSE IF "stations" \notin DOMAIN json_data
         THEN ValueError("Missing required 'stations' data", <<>>)
    ELSE IF "services" \notin DOMAIN json_data
         THEN ValueError("Missing required 'services' data", <<>>)
    ELSE None

\* The first failing check of write_gtfs_static, or None.
gtfs_error(json_data) ==
    IF "agencies" \notin DOMAIN json_data
    THEN ValueError("Missing required 'agencies' data", <<>>)
    ELSE IF "stations" \notin DOMAIN json_data
         THEN ValueError("Missing required 'stations' data", <<>>)
    ELSE IF "services" \notin DOMAIN json_data
         THEN ValueError("Missing required 'services' data", <<>>)
    ELSE IF json_data.agencies = <<>> \/ json_data.stations = <<>>
            \/ json_data.services = <<>>
         THEN ValueError("Agencies, stations, and services cannot be empty", <<>>)
    ELSE None

GtfsFileNames ==
    {"agency.txt", "stops.txt", "routes.txt", "calendar.txt", "trips.txt",
     "stop_times.txt", "feed_info.txt"}

\* write_gtfs_static(json_data)
write_gtfs_static(json_data, today) ==
    IF gtfs_error(json_data) # None THEN gtfs_error(json_data)
    ELSE Ok([f \in GtfsFileNames |->
            CASE f = "agency.txt" -> _generate_agency_file(json_data.agencies)
              [] f = "stops.txt" -> _generate_stops_file(json_data.stations)
              [] f = "routes.txt" ->
                     _generate_routes_file(json_data.services, json_data.agencies)
              [] f = "calendar.txt" -> _generate_calendar_file(json_data.services)
              [] f = "trips.txt" -> _generate_trips_file(json_data.services)
              [] f = "stop_times.txt" -> _generate_stop_times_file(json_data.services)
              [] f = "feed_info.txt" -> _generate_feed_info_file(json_data, today)])

\* len(create_gtfs_zip(gtfs_files)): the archive holds every file; its size in
\* bytes is a function of the contents (here the number of values archived).
zip_size(gtfs_files) ==
    LET Cells(f) == Len(Concat(gtfs_files[f]))
        names == <<"agency.txt", "stops.txt", "routes.txt", "calendar.txt", "trips.txt",
                   "stop_times.txt", "feed_info.txt">>
        RECURSIVE Sum(_)
        Sum(i) == IF i > Len(names) THEN 0 ELSE Cells(names[i]) + Sum(i + 1)
    IN  Sum(1)

\* mock_protobuf
MockProtobuf ==
    <<8, 150, 146, 179, 167, 6, 18, 26, 8, 1, 18, 22, 10, 4, 116, 114, 105, 112,
      18, 14, 10, 12, 8, 1, 18, 8, 116, 101, 115, 116, 95, 116, 114, 105, 112>>

\* A variant of write_gtfs_realtime whose alerts feed grows with the number of
\* top-level keys of the document.
write_gtfs_realtime_sized_by_input(json_data) ==
    [f \in {"vehicle_positions", "trip_updates", "alerts"} |->
        IF f = "alerts"
        THEN MockProtobuf \o [i \in 1..Cardinality(DOMAIN json_data) |-> 0]
        ELSE MockProtobuf]

\* write_gtfs_realtime(json_data)
write_gtfs_realtime(json_data) ==
    [f \in {"vehicle_positions", "trip_updates", "alerts"} |-> MockProtobuf]

(***************************************************************************)
(* Input documents.                                                        *)
(***************************************************************************)
\* Lists of at most n elements of S.
SeqUpTo(S, n) == UNION {[1..k -> S] : k \in 0..n}

AgencyA1 == [id |-> <<"A", "1">>, name |-> <<"T", "e", "s", "t", "'", "s">>]

AgencyA2 == [id |-> <<"A", "2">>]

StationPlain == [id |-> <<"S", "T", "1">>, name |-> <<"a", "+", "b">>]

StationCoords == [id |-> <<"S", "T", "2">>, name |-> <<"c">>, lat |-> 48, lon |-> 17]

StationZeroLat == [id |-> <<"S", "T", "3">>, lat |-> 0, lon |-> 17]

VariantWedSun ==
    [id |-> <<"V", "1">>,
     calendar |-> [wednesday |-> TRUE, sunday |-> TRUE,
                   start_date |-> <<"2", "0", "2", "3", "0", "3", "0", "1">>,
                   end_date |-> <<"2", "0", "2", "5", "-", "1", "-", "1">>]]

VariantServiceIdOnly ==
    [service_id |-> <<"V", "2">>, calendar |-> [monday |-> FALSE]]

VariantSameId ==
    [id |-> <<"V", "1">>,
     calendar |-> [monday |-> TRUE,
                   end_date |-> <<"2", "0", "2", "5", "0", "1", "0", "1">>]]

CallFull ==
    [station_id |-> <<"S", "T", "1">>, arrival_time |-> <<"8", ":", "5">>,
     departure_time |-> <<"0", "8", ":", "1", "0", ":", "0", "0">>, day_offset |-> 1]

CallBare == [station_id |-> <<>>, departure_time |-> <<"0", "9", ":", "0", "0">>]

ServiceMinimal ==
    [id |-> <<"S", "1">>, agency_id |-> <<"A", "1">>,
     route_short_name |-> <<"1", "0", "1">>]

ServiceTwoVariants ==
    [id |-> <<"S", "2">>, agency_id |-> <<"A", "1">>, train_number |-> <<>>,
     route_short_name |-> <<"7">>, headsign |-> <<"a", ":", "b">>,
     variants |-> <<VariantWedSun, VariantServiceIdOnly>>, calls |-> <<CallFull>>]

ServiceTwoCalls ==
    [id |-> <<"S", "3">>, agency_id |-> <<"A", "2">>,
     route_long_name |-> <<"x", "?", "'">>,
     variants |-> <<VariantSameId>>, calls |-> <<CallFull, CallBare>>]

ServiceNoCarrier ==
    [id |-> <<"S", "1">>, train_number |-> <<"9">>,
     variants |-> <<VariantWedSun>>, calls |-> <<CallBare>>]

ServiceIdOnly == [id |-> <<"S", "4">>]

ServiceRecs == {ServiceMinimal, ServiceTwoVariants, ServiceTwoCalls, ServiceNoCarrier}

StationRecs == {StationPlain, StationCoords, StationZeroLat}

PublisherAcme == [name |-> <<"A", "c", "e">>, url |-> <<"a", ".", "e">>]

PublisherFixed ==
    [name |-> <<"N", "+">>,
     fixed_timestamp |-> <<"2", "5", "0", "1", "0", "1", ":", "1", "2", "0", "0">>]

\* A document with the given top-level keys; an absent key is None.
Doc(publisher, agencies, stations, services) ==
    LET parts == [publisher |-> publisher, agencies |-> agencies,
                  stations |-> stations, services |-> services]
    IN  [k \in {key \in DOMAIN parts : parts[key] # None} |-> parts[k].some]

Opt(S) == {None} \cup {Some(x) : x \in S}

\* Documents that vary the services, the stations and the publisher over a
\* fixed rest, and documents that vary which required lists are present,
\* empty or filled.
Docs ==
    {Doc(None, Some(<<AgencyA1, AgencyA2>>), Some(<<StationPlain>>), Some(sv)) :
        sv \in SeqUpTo(ServiceRecs, MaxServices)}
    \cup {Doc(p, Some(<<AgencyA1>>), Some(st), Some(<<ServiceMinimal>>)) :
        p \in Opt({PublisherAcme, PublisherFixed}), st \in SeqUpTo(StationRecs, MaxStations)}
    \cup {Doc(None, a, st, sv) :
        a \in Opt({<<>>, <<AgencyA1>>}), st \in Opt({<<>>, <<StationCoords>>}),
        sv \in Opt({<<>>, <<ServiceTwoVariants>>, <<ServiceIdOnly>>})}

Versions == {VersionCurrent, <<"V", "1">>}

UnaReserved == <<"U", "N", "A", ":", "+", ".", "?", "*", "'">>

UnaStarTerminator == <<"U", "N", "A", ":", "+", ".", "?", " ", "*">>

UnaSameCompElem == <<"U", "N", "A", "+", "+", ".", "?", " ", "'">>

UnaShort == <<"U", "N", "A", ":", "+", ".", "?", "'">>

UnaLong == <<"U", "N", "A", ":", "+", ".", "?", " ", " ", "'">>

UnaBadPrefix == <<"X", "N", "A", ":", "+", ".", "?", " ", "'">>

Unas == {DefaultUna, UnaReserved, UnaStarTerminator, UnaSameCompElem,
         UnaShort, UnaLong, UnaBadPrefix}

SepChars == {":", "+", "?", "'"}

\* Every UNA string over SepChars: separator sets with and without repeats.
SepUnas ==
    {<<"U", "N", "A", c, e, ".", r, " ", t>> : c \in SepChars, e \in SepChars,
                                               r \in SepChars, t \in SepChars}

Texts == SeqUpTo(SepChars \cup {"a"}, MaxTextLen)

Dates == {Date20240101, <<"2", "0", "2", "6", "1", "1", "0", "2">>}

(***************************************************************************)
(* Library calls: the writers and escape applied to drawn arguments.       *)
(***************************************************************************)
NotCalled == [fn |-> "none"]

ServiceIdle ==
    /\ job_storage = <<>>
    /\ stored_files = {}
    /\ generated = {}
    /\ returned = {}
    /\ request = None
    /\ response = None

InitEdifact ==
    /\ ServiceIdle
    /\ args \in [json_data : Docs, version : Versions, una : Unas]
    /\ ret = NotCalled

CallWriteSkdupd ==
    /\ ret' = [fn |-> "write_skdupd",
               result |-> write_skdupd(args.json_data, args.version, args.una)]
    /\ UNCHANGED <<job_storage, stored_files, generated, returned, request, response, args>>

CallWriteTsdupd ==
    /\ ret' = [fn |-> "write_tsdupd",
               result |-> write_tsdupd(args.json_data, args.version, args.una)]
    /\ UNCHANGED <<job_storage, stored_files, generated, returned, request, response, args>>

NextEdifact == CallWriteSkdupd \/ CallWriteTsdupd

SpecEdifact == InitEdifact /\ [][NextEdifact]_vars

InitEscape ==
    /\ ServiceIdle
    /\ args \in [value : Texts, una : SepUnas]
    /\ ret = NotCalled

CallEscape ==
    /\ ret' = [fn |-> "escape", result |-> escape(args.value, ParseUna(args.una))]
    /\ UNCHANGED <<job_storage, stored_files, generated, returned, request, response, args>>

NextEscape == CallEscape

SpecEscape == InitEscape /\ [][NextEscape]_vars

\* Publisher objects: every combination of name, url and fixed_timestamp
\* present or absent.
PublisherRecs ==
    {[k \in {key \in {"name", "url", "fixed_timestamp"} : parts[key] # None} |->
          parts[k].some] :
        parts \in [name : Opt({PublisherAcme.name, PublisherFixed.name}),
                   url : Opt({PublisherAcme.url}),
                   fixed_timestamp : Opt({PublisherFixed.fixed_timestamp})]}

RefArgs == [publisher : PublisherRecs, version : Versions]

InitRef ==
    /\ ServiceIdle
    /\ args \in RefArgs
    /\ ret = NotCalled

\* One call of generate_deterministic_ref; ret keeps the call before it, and
\* the arguments of the next call are chosen afresh.
CallGenerateRef ==
    /\ ret' = [fn |-> "generate_deterministic_ref",
               earlier |-> IF ret = NotCalled THEN None ELSE Some(ret.last),
               last |-> [publisher |-> args.publisher, version |-> args.version,
                         result |-> generate_deterministic_ref(args.publisher,
                                                               args.version)]]
    /\ args' \in RefArgs
    /\ UNCHANGED <<job_storage, stored_files, generated, returned, request, response>>

NextRef == CallGenerateRef

SpecRef == InitRef /\ [][NextRef]_vars

InitGtfs ==
    /\ ServiceIdle
    /\ args \in [json_data : Docs, today : Dates]
    /\ ret = NotCalled

CallWriteGtfsStatic ==
    /\ ret' = [fn |-> "write_gtfs_static",
               result |-> write_gtfs_static(args.json_data, args.today)]
    /\ UNCHANGED <<job_storage, stored_files, generated, returned, request, response, args>>

CallWriteGtfsRealtime ==
    /\ ret' = [fn |-> "write_gtfs_realtime",
               result |-> write_gtfs_realtime(args.json_data)]
    /\ UNCHANGED <<job_storage, stored_files, generated, returned, request, response, args>>

NextGtfs == CallWriteGtfsStatic \/ CallWriteGtfsRealtime

SpecGtfs == InitGtfs /\ [][NextGtfs]_vars

(***************************************************************************)
(* File handler (file_handler.py).                                         *)
(***************************************************************************)
WordChars ==
    {"a", "b", "c", "j", "s", "o", "n", "t", "x", "0", "1", "_"}

\* re.sub(r'[^\w\-_\.]', '_', filename)
SubUnsafe(filename) ==
    [i \in 1..Len(filename) |->
        IF filename[i] \in WordChars \cup {"-", "."} THEN filename[i] ELSE "_"]

\* Index of the last dot of name, 0 when there is none.
LastDot(name) ==
    IF \E i \in 1..Len(name) : name[i] = "."
    THEN CHOOSE i \in 1..Len(name) :
            name[i] = "." /\ \A j \in (i + 1)..Len(name) : name[j] # "."
    ELSE 0

\* os.path.splitext(name) for a name without path separators: the extension
\* starts at the last dot unless only dots precede it.
SplitExt(name) ==
    LET i == LastDot(name)
    IN  IF i = 0 \/ \A j \in 1..(i - 1) : name[j] = "."
        THEN <<name, <<>> >>
        ELSE <<SubSeq(name, 1, i - 1), SubSeq(name, i, Len(name))>>

MaxFilenameLen == 100

TruncatedNameLen == 95

\* FileHandler._sanitize_filename(filename)
_sanitize_filename(filename) ==
    LET safe == SubUnsafe(filename)
        limited == IF Len(safe) > MaxFilenameLen
                   THEN Prefix(SplitExt(safe)[1], TruncatedNameLen) \o SplitExt(safe)[2]
                   ELSE safe
    IN  IF \A i \in 1..Len(limited) : limited[i] # "."
        THEN limited \o <<".", "t", "x", "t">>
        ELSE limited

\* value.endswith(suffix)
EndsWith(value, suffix) ==
    Len(value) >= Len(suffix)
    /\ SubSeq(value, Len(value) - Len(suffix) + 1, Len(value)) = suffix

\* filename.endswith('.json')
EndsWithJson(filename) == EndsWith(filename, <<".", "j", "s", "o", "n">>)

\* raise HTTPException(status_code=..., detail=f"{text}{str(cause)}")
HTTPException(status_code, text, cause) ==
    [ok |-> FALSE, exc |-> "HTTPException", status_code |-> status_code,
     detail |-> [text |-> text, cause |-> cause]]

\* Filenames handed to _sanitize_filename: names of 0 to 2 and of 93 to 102
\* characters, with no extension and with extensions of 1, 5 and 6
\* characters, and two names with characters that are replaced.
Filenames ==
    {[i \in 1..n |-> "a"] \o ext :
        n \in (0..2) \cup (93..102),
        ext \in {<<>>, <<".">>, <<".", "j", "s", "o", "n">>,
                 <<".", "j", "s", "o", "n", "x">>}}
    \cup {<<"a", " ", "/", "b">>, <<".", ".", "/", "a", ".", "t", "x", "t">>}

InitSanitize ==
    /\ ServiceIdle
    /\ args \in [filename : Filenames]
    /\ ret = NotCalled

CallSanitizeFilename ==
    /\ ret' = [fn |-> "_sanitize_filename", result |-> _sanitize_filename(args.filename)]
    /\ UNCHANGED <<job_storage, stored_files, generated, returned, request, response, args>>

NextSanitize == CallSanitizeFilename

SpecSanitize == InitSanitize /\ [][NextSanitize]_vars

\* FileHandler.save_uploaded_file(file, job_id): the path written, a job
\* directory and the sanitized name ("upload.json" when there is no name).
save_uploaded_file(file, job_id) ==
    <<job_id,
      _sanitize_filename(IF file.filename = None
                         THEN <<"u", "p", "l", "o", "a", "d", ".", "j", "s", "o", "n">>
                         ELSE file.filename.some)>>

\* FileHandler.read_json_file(file_path) on the content that was uploaded: a
\* JSON object parses to its document, malformed JSON raises 400, bytes that
\* are not UTF-8 raise 500, and any other JSON value is returned as parsed.
read_json_file(content) ==
    CASE content.kind = "object" -> Ok(content)
      [] content.kind = "array" -> Ok(content)
      [] content.kind = "malformed" -> HTTPException(400, "Invalid JSON file: ", None)
      [] content.kind = "not_utf8" -> HTTPException(500, "Failed to read file: ", None)

(***************************************************************************)
(* HTTP service (main.py).  A handler is an operator from the request and  *)
(* the job id it generated to its reply (Ok(result) or the HTTPException   *)
(* raised) and the job-table writes it made, in order.                     *)
(***************************************************************************)
Outcome(reply, writes) == [reply |-> reply, writes |-> writes]

\* datetime.utcnow().isoformat() at the one instant of this model.
Timestamp == "2026-11-02T00:00:00"

\* int((time.time() - start_time) * 1000) at the one instant of this model.
ProcessingTime == 0

ConversionMetadata ==
    [processing_time |-> ProcessingTime, conversion_engine |-> "TSI-Converter-v1.0",
     timestamp |-> Timestamp]

\* ConversionResult(...) of a conversion handler.
ConversionResult(job_id, req, results, output, metadata) ==
    [job_id |-> job_id, input_format |-> "json",
     output_format |-> req.output_format, status |-> "completed",
     progress |-> 100, results |-> results, output |-> output,
     download_url |-> None, metadata |-> metadata]

\* len(req.input_data.get(field, []))
ListLen(input_data, field) == Len(Get(input_data, field, <<>>))

\* results and output of the two EDIFACT handlers.
EdifactResult(job_id, req, records, type, edifact_content) ==
    ConversionResult(job_id, req,
        [original_records |-> records, converted_records |-> records,
         validation_errors |-> 0, warnings |-> 0,
         edifact_length |-> Len(edifact_content),
         edifact_segments |-> Count(edifact_content, "'")],
        [type |-> type, content |-> edifact_content, encoding |-> "UTF-8",
         segments |-> Count(edifact_content, "'")],
        ConversionMetadata)

\* The try block of convert_to_skdupd: its result, or the exception raised in it.
skdupd_try(req, job_id) ==
    IF "agencies" \notin DOMAIN req.input_data
       \/ "services" \notin DOMAIN req.input_data
    THEN HTTPException(400,
            "Missing required 'agencies' or 'services' data for SKDUPD conversion", None)
    ELSE LET written == write_skdupd(req.input_data,
                            Get(req.options, "version", VersionCurrent),
                            Get(req.options, "una", DefaultUna))
             records == ListLen(req.input_data, "agencies")
                            + ListLen(req.input_data, "services")
         IN  IF ~written.ok THEN written
             ELSE Ok(EdifactResult(job_id, req, records, "EDIFACT_SKDUPD", written.value))

\* "except Exception as e: raise HTTPException(status_code=500, ...)": every
\* exception of the try block, an HTTPException included, is caught.
CatchAll(tried, text) ==
    IF tried.ok THEN tried ELSE HTTPException(500, text, tried)

\* A variant that registers the job before the result is built.
StoreResult_job_registered_first(tried, job_id) ==
    << <<job_id, [job_id |-> job_id, status |-> "processing", progress |-> 0]>> >>
        \o (IF tried.ok THEN << <<job_id, tried.value>> >> ELSE <<>>)

\* "job_storage[job_id] = result.dict()" once the result is built.
StoreResult(tried, job_id) == IF tried.ok THEN << <<job_id, tried.value>> >> ELSE <<>>

\* convert_to_skdupd(request, background_tasks)
convert_to_skdupd(req, job_id) ==
    LET tried == skdupd_try(req, job_id)
    IN  Outcome(CatchAll(tried, "SKDUPD conversion failed: "), StoreResult(tried, job_id))

\* The try block of convert_to_tsdupd.
tsdupd_try(req, job_id) ==
    IF "stations" \notin DOMAIN req.input_data
    THEN HTTPException(400, "Missing required 'stations' data for TSDUPD conversion", None)
    ELSE LET written == write_tsdupd(req.input_data,
                            Get(req.options, "version", VersionCurrent),
                            Get(req.options, "una", DefaultUna))
             records == ListLen(req.input_data, "stations")
         IN  IF ~written.ok THEN written
             ELSE Ok(EdifactResult(job_id, req, records, "EDIFACT_TSDUPD", written.value))

\* convert_to_tsdupd(request, background_tasks)
convert_to_tsdupd(req, job_id) ==
    LET tried == tsdupd_try(req, job_id)
    IN  Outcome(CatchAll(tried, "TSDUPD conversion failed: "), StoreResult(tried, job_id))

RequiredFields == <<"agencies", "stations", "services">>

\* The date of datetime.now() in this model.
Today == <<"2", "0", "2", "6", "1", "1", "0", "2">>

ZipFormat == <<"z", "i", "p">>

\* The try block of convert_to_gtfs.
gtfs_try(req, job_id) ==
    IF \E i \in 1..3 : RequiredFields[i] \notin DOMAIN req.input_data
    THEN LET field == RequiredFields[CHOOSE i \in 1..3 :
                          /\ RequiredFields[i] \notin DOMAIN req.input_data
                          /\ \A j \in 1..(i - 1) :
                                 RequiredFields[j] \in DOMAIN req.input_data]
         IN  HTTPException(400, "Missing required '{field}' data for GTFS conversion",
                           [field |-> field])
    ELSE LET written == write_gtfs_static(req.input_data, Today)
             gtfs_files == written.value
             output ==
                 IF Get(req.options, "format", <<>>) = ZipFormat
                 THEN [type |-> "GTFS_ZIP",
                       content |-> [text |-> "ZIP archive", bytes |-> zip_size(gtfs_files)],
                       files |-> DOMAIN gtfs_files,
                       download_url |-> <<"/download/gtfs/", job_id, ".zip">>]
                 ELSE [type |-> "GTFS", files |-> gtfs_files,
                       validation |-> [errors |-> 0, warnings |-> 0,
                           notices |-> <<"GTFS package successfully generated">>]]
             total_records == ListLen(req.input_data, "agencies")
                                  + ListLen(req.input_data, "stations")
                                  + ListLen(req.input_data, "services")
         IN  IF ~written.ok THEN written
             ELSE Ok(ConversionResult(job_id, req,
                        [original_records |-> total_records,
                         converted_records |-> total_records,
                         validation_errors |-> 0, warnings |-> 0,
                         gtfs_files |-> Cardinality(DOMAIN gtfs_files)],
                        output, ConversionMetadata))

\* convert_to_gtfs(request, background_tasks)
convert_to_gtfs(req, job_id) ==
    LET tried == gtfs_try(req, job_id)
    IN  Outcome(CatchAll(tried, "GTFS conversion failed: "), StoreResult(tried, job_id))

\* The try block of convert_to_gtfs_realtime.
gtfs_realtime_try(req, job_id) ==
    LET feeds == write_gtfs_realtime(req.input_data)
    IN  Ok(ConversionResult(job_id, req,
               [original_records |-> 1, converted_records |-> 1,
                validation_errors |-> 0, warnings |-> 1],
               [type |-> "GTFS_REALTIME", protobuf |-> TRUE,
                feeds |-> [f \in DOMAIN feeds |->
                              [text |-> "Binary protobuf data", bytes |-> Len(feeds[f])]]],
               [processing_time |-> ProcessingTime,
                conversion_engine |-> "TSI-Converter-v1.0", timestamp |-> Timestamp,
                warnings |-> <<"This is a placeholder implementation for GTFS-Realtime">>]))

\* convert_to_gtfs_realtime(request, background_tasks)
convert_to_gtfs_realtime(req, job_id) ==
    LET tried == gtfs_realtime_try(req, job_id)
    IN  Outcome(CatchAll(tried, "GTFS-Realtime conversion failed: "),
                StoreResult(tried, job_id))

RECURSIVE SumRecords(_, _)
\* sum(len(v) if isinstance(v, list) else 1 for v in input_data.values())
SumRecords(input_data, keys) ==
    IF keys = {} THEN 0
    ELSE LET k == CHOOSE x \in keys : TRUE
         IN  (IF k = "publisher" THEN 1 ELSE Len(input_data[k]))
                 + SumRecords(input_data, keys \ {k})

JsonTransport == "json-transport"

\* A variant of validation_errors in which the strict level also requires
\* 'stations'.
validation_errors_strict_requires_stations(req) ==
    (IF req.format = JsonTransport /\ "agencies" \notin DOMAIN req.input_data
     THEN <<[code |-> "MISSING_REQUIRED_FIELD",
             message |-> "Required field 'agencies' is missing",
             field |-> "agencies", severity |-> "error"]>>
     ELSE <<>>)
    \o (IF req.validation_level = "strict" /\ "stations" \notin DOMAIN req.input_data
        THEN <<[code |-> "MISSING_REQUIRED_FIELD",
                message |-> "Required field 'stations' is missing",
                field |-> "stations", severity |-> "error"]>>
        ELSE <<>>)

\* The errors list of validate_data.
validation_errors(req) ==
    IF req.format = JsonTransport /\ "agencies" \notin DOMAIN req.input_data
    THEN <<[code |-> "MISSING_REQUIRED_FIELD",
            message |-> "Required field 'agencies' is missing",
            field |-> "agencies", severity |-> "error"]>>
    ELSE <<>>

\* The try block of validate_data: the ValidationResult built.
validate_try(req, job_id) ==
    LET errors == validation_errors(req)
        total_records == SumRecords(req.input_data, DOMAIN req.input_data)
        valid_records == total_records - Len(errors)
    IN  Ok([job_id |-> job_id, format |-> req.format,
            validation_level |-> req.validation_level, status |-> "completed",
            is_valid |-> (Len(errors) = 0),
            summary |-> [total_records |-> total_records, valid_records |-> valid_records,
                         errors |-> errors, warnings |-> <<>>, notices |-> <<>>],
            details |->
                [field_validation |->
                    [required |-> [passed |-> valid_records, failed |-> Len(errors),
                                   \* (valid_records / total_records) * 100, whole part
                                   percentage |-> IF total_records = 0 THEN 100
                                                  ELSE (valid_records * 100) \div total_records],
                     format |-> [passed |-> total_records, failed |-> 0, percentage |-> 100],
                     range |-> [passed |-> total_records, failed |-> 0, percentage |-> 100]],
                 data_integrity |->
                    [consistency |-> [score |-> "100.0", issues |-> 0],
                     completeness |-> [score |-> "98.5", missing |-> Len(errors)],
                     accuracy |-> [score |-> "99.0", outliers |-> 0]]],
            recommendations |->
                IF errors # <<>>
                THEN <<"Fix validation errors to improve data quality",
                       "Consider adding optional fields for better usability">>
                ELSE <<"Data validation passed successfully",
                       "Consider periodic validation checks">>,
            metadata |-> [validation_engine |-> "TSI-Validator-v1.0",
                          processing_time |-> ProcessingTime, timestamp |-> Timestamp]])

\* validate_data(request, background_tasks)
validate_data(req, job_id) ==
    LET tried == validate_try(req, job_id)
    IN  Outcome(CatchAll(tried, "Validation failed: "), StoreResult(tried, job_id))

\* A variant of get_job_status that answers for every id.
get_job_status_unknown_as_empty(storage, job_id) ==
    Ok([job_id |-> job_id, type |-> "conversion", status |-> "unknown", progress |-> 0])

\* get_job_status(job_id), reading the job table.
get_job_status(storage, job_id) ==
    IF job_id \notin DOMAIN storage
    THEN HTTPException(404, "Job {job_id} not found", [job_id |-> job_id])
    ELSE LET job_data == storage[job_id]
             metadata == Get(job_data, "metadata", <<>>)
             results == Get(job_data, "results", <<>>)
         IN  Ok([job_id |-> job_id,
                 type |-> IF job_id[1] = "val" THEN "validation" ELSE "conversion",
                 status |-> Get(job_data, "status", "unknown"),
                 progress |-> Get(job_data, "progress", 0),
                 estimated_time_remaining |-> None,
                 current_step |-> IF Get(job_data, "status", "") = "completed"
                                  THEN "Completed" ELSE "Processing",
                 steps |-> <<[name |-> "parsing", status |-> "completed", duration |-> 100],
                             [name |-> "processing", status |-> "completed",
                              duration |-> Get(metadata, "processing_time", 0)],
                             [name |-> "completion", status |-> "completed",
                              duration |-> 50]>>,
                 metrics |-> [records_processed |-> Get(results, "original_records", 0),
                              errors_found |-> Get(results, "validation_errors", 0),
                              warnings_found |-> Get(results, "warnings", 0)],
                 timestamps |-> [started |-> Get(metadata, "timestamp", ""),
                                 completed |-> Get(metadata, "timestamp", "")]])

\* health_check()
health_check ==
    Ok([status |-> "healthy", timestamp |-> Timestamp, version |-> "1.0.0",
        dependencies |-> [edifact_writer |-> "operational", gtfs_writer |-> "operational"]])

\* provision_tenant(request)
provision_tenant(req) ==
    Ok([tenant_id |-> req.tenant_id, organization_name |-> req.organization_name,
        plan |-> req.plan, status |-> "provisioned",
        endpoints |-> [convert |-> "https://tsi-converter.example.com/convert",
                       validate |-> "https://tsi-converter.example.com/validate",
                       status |-> "https://tsi-converter.example.com/status"],
        created_at |-> Timestamp])

\* download_file(job_id, filename), reading the stored files.
download_file(files, job_id, filename) ==
    IF <<job_id, filename>> \notin files
    THEN HTTPException(404, "File not found", None)
    ELSE Ok([path |-> <<job_id, filename>>, filename |-> filename,
             media_type |->
                 IF EndsWith(filename, <<".", "z", "i", "p">>) THEN "application/zip"
                 ELSE IF EndsWith(filename, <<".", "t", "x", "t">>)
                         \/ EndsWith(filename, <<".", "e", "d", "i">>) THEN "text/plain"
                 ELSE "application/octet-stream"])

OutputFormats == {"edifact-skdupd", "edifact-tsdupd", "gtfs", "gtfs-realtime"}

\* The handler upload_and_convert routes to, with the prefix of its job ids.
Delegate(output_format, req, job_id) ==
    CASE output_format = "edifact-skdupd" -> convert_to_skdupd(req, job_id)
      [] output_format = "edifact-tsdupd" -> convert_to_tsdupd(req, job_id)
      [] output_format = "gtfs" -> convert_to_gtfs(req, job_id)
      [] output_format = "gtfs-realtime" -> convert_to_gtfs_realtime(req, job_id)

PrefixOf(output_format) ==
    CASE output_format = "edifact-skdupd" -> "skdupd"
      [] output_format = "edifact-tsdupd" -> "tsdupd"
      [] output_format = "gtfs" -> "gtfs"
      [] output_format = "gtfs-realtime" -> "gtfs_rt"

\* Whether upload_and_convert stops at the file-type check.
RejectedFilename(file) ==
    file.filename = None \/ file.filename.some = <<>> \/ ~EndsWithJson(file.filename.some)

\* A variant of upload_and_convert that saves the file and then refuses it.
upload_and_convert_saves_first(file, output_format, n) ==
    [reply |-> HTTPException(400, "Only JSON files are supported", None),
     writes |-> <<>>, saved |-> {save_uploaded_file(file, <<"upload", n + 1>>)},
     ids |-> {<<"upload", n + 1>>}]

\* The number of job ids a call of upload_and_convert generates: its own,
\* and the delegated handler's when it gets that far.
upload_ids(file) ==
    IF ~RejectedFilename(file) /\ file.content.kind = "object" THEN 2 ELSE 1

\* A variant of upload_delegated that stores the uploaded file under the job
\* id of the delegated handler.
upload_delegated_saves_under_result(file, output_format, n, delegated) ==
    [reply |-> delegated.reply, writes |-> delegated.writes,
     saved |-> {save_uploaded_file(file, <<PrefixOf(output_format), n + 2>>)},
     ids |-> {<<"upload", n + 1>>, <<PrefixOf(output_format), n + 2>>}]

\* The rest of upload_and_convert once the delegated handler has answered:
\* its reply is the reply, its writes are the writes.
upload_delegated(file, output_format, n, delegated) ==
    [reply |-> delegated.reply, writes |-> delegated.writes,
     saved |-> {save_uploaded_file(file, <<"upload", n + 1>>)},
     ids |-> {<<"upload", n + 1>>, <<PrefixOf(output_format), n + 2>>}]

\* The rest of upload_and_convert once the saved file has been read.
upload_read(file, output_format, n, json_data) ==
    IF ~json_data.ok
    THEN [reply |-> json_data, writes |-> <<>>,
          saved |-> {save_uploaded_file(file, <<"upload", n + 1>>)},
          ids |-> {<<"upload", n + 1>>}]
    ELSE IF json_data.value.kind # "object"
    \* ConversionRequest(input_data=...) rejects a value that is no mapping.
    THEN [reply |-> HTTPException(500, "Upload conversion failed: ",
                                  [exc |-> "ValidationError"]),
          writes |-> <<>>, saved |-> {save_uploaded_file(file, <<"upload", n + 1>>)},
          ids |-> {<<"upload", n + 1>>}]
    ELSE upload_delegated(file, output_format, n,
             Delegate(output_format,
                      [input_data |-> json_data.value.document,
                       output_format |-> output_format, options |-> <<>>],
                      <<PrefixOf(output_format), n + 2>>))

\* upload_and_convert(file, output_format): reply, job-table writes, files
\* saved and the job ids generated, n ids having been generated before.
upload_and_convert(file, output_format, n) ==
    IF RejectedFilename(file)
    THEN [reply |-> HTTPException(400, "Only JSON files are supported", None),
          writes |-> <<>>, saved |-> {}, ids |-> {<<"upload", n + 1>>}]
    ELSE upload_read(file, output_format, n, read_json_file(file.content))

(***************************************************************************)
(* The service as a state machine: one action per endpoint.                *)
(***************************************************************************)
DocEmpty == Doc(None, None, None, None)

DocEmptyLists == Doc(None, Some(<<>>), Some(<<>>), Some(<<>>))

DocFull ==
    Doc(Some(PublisherFixed), Some(<<AgencyA1>>), Some(<<StationCoords>>),
        Some(<<ServiceTwoVariants>>))

HttpDocs == {DocEmpty, DocEmptyLists, DocFull}

\* Options sent to the conversion endpoint of the given format: none, and
\* the ones that endpoint reads.
HttpOptions(format) ==
    {<<>>}
    \cup (IF format = "edifact-skdupd" THEN {[una |-> UnaStarTerminator]} ELSE {})
    \cup (IF format \in {"edifact-skdupd", "edifact-tsdupd"}
          THEN {[una |-> UnaShort]} ELSE {})
    \cup (IF format = "gtfs" THEN {[format |-> ZipFormat]} ELSE {})

\* Another output format than the endpoint's own, for a request that names it.
OtherFormat(format) == IF format = "gtfs-realtime" THEN "gtfs" ELSE "gtfs-realtime"

\* Request bodies sent to the conversion endpoint of the given format; the
\* SKDUPD endpoint is also sent a body that names another output format.
ConversionRequests(format) ==
    {[input_data |-> d, output_format |-> format, options |-> <<>>] : d \in HttpDocs}
    \cup {[input_data |-> DocFull, output_format |-> format, options |-> o] :
             o \in HttpOptions(format)}
    \cup (IF format = "edifact-skdupd"
          THEN {[input_data |-> DocFull, output_format |-> OtherFormat(format),
                 options |-> <<>>]}
          ELSE {})

ValidationRequests ==
    {[input_data |-> DocEmpty, format |-> JsonTransport, validation_level |-> l] :
        l \in {"standard", "strict"}}
    \cup {[input_data |-> DocFull, format |-> JsonTransport, validation_level |-> "standard"],
          [input_data |-> DocEmpty, format |-> "gtfs", validation_level |-> "standard"]}

NameJson == <<"a", ".", "j", "s", "o", "n">>

NameTxt == <<"a", ".", "t", "x", "t">>

UploadedFiles ==
    {[filename |-> f, content |-> [kind |-> "object", document |-> DocFull]] :
        f \in {None, Some(NameTxt), Some(NameJson)}}
    \cup {[filename |-> Some(NameJson), content |-> c] :
             c \in {[kind |-> "object", document |-> DocEmpty],
                    [kind |-> "array"], [kind |-> "malformed"], [kind |-> "not_utf8"]}}

\* Uploads: the well-formed file towards every converter, the others towards
\* the default one.
UploadRequests ==
    {[file |-> f, output_format |-> o] : f \in UploadedFiles, o \in OutputFormats}
    \ {[file |-> f, output_format |-> o] :
          f \in {g \in UploadedFiles :
                    g.filename # Some(NameJson)
                    \/ g.content # [kind |-> "object", document |-> DocFull]},
          o \in OutputFormats \ {"edifact-skdupd"}}

\* Number of job ids generated so far; the next id carries the next number,
\* which stands for the time and uuid parts that make it fresh.
id_counter == Cardinality(generated)

\* A well-formed job id that the service never generates.
NeverGenerated == <<"skdupd", 0>>

\* Job ids a caller may ask about: every id generated so far, returned to a
\* caller or not, and one that was never generated.
JobIds == generated \cup {NeverGenerated}

\* A variant of Apply that rebuilds the table from the new records alone.
Apply_drops_other_records(storage, writes) ==
    IF writes = <<>> THEN storage
    ELSE [k \in {writes[i][1] : i \in 1..Len(writes)} |->
             writes[CHOOSE i \in 1..Len(writes) :
                        /\ writes[i][1] = k
                        /\ \A j \in (i + 1)..Len(writes) : writes[j][1] # k][2]]

RECURSIVE Apply(_, _)
\* The job table after the writes "job_storage[job_id] = record", in order.
Apply(storage, writes) ==
    IF writes = <<>> THEN storage
    ELSE LET w == Head(writes)
         IN  Apply([k \in DOMAIN storage \cup {w[1]} |->
                       IF k = w[1] THEN w[2] ELSE storage[k]], Tail(writes))

\* What the caller receives: 200 with the result, or the exception's status.
ToResponse(reply) ==
    IF reply.ok THEN [status_code |-> 200, body |-> reply.value]
    ELSE [status_code |-> reply.status_code, detail |-> reply.detail]

Init ==
    /\ job_storage = <<>>
    /\ stored_files = {}
    /\ generated = {}
    /\ returned = {}
    /\ request = None
    /\ response = None
    /\ args = None
    /\ ret = NotCalled

\* A request that generated one job id and ran a handler with it.
Handled(endpoint, body, job_id, outcome) ==
    /\ request' = [endpoint |-> endpoint, body |-> body]
    /\ response' = ToResponse(outcome.reply)
    /\ job_storage' = Apply(job_storage, outcome.writes)
    /\ returned' = IF outcome.reply.ok THEN returned \cup {outcome.reply.value.job_id}
                   ELSE returned
    /\ generated' = generated \cup {job_id}
    /\ UNCHANGED <<stored_files, args, ret>>

\* A variant of Answered in which the endpoint also empties the job table.
Answered_clears_table(endpoint, body, reply) ==
    /\ request' = [endpoint |-> endpoint, body |-> body]
    /\ response' = ToResponse(reply)
    /\ job_storage' = <<>>
    /\ UNCHANGED <<stored_files, generated, returned, args, ret>>

\* A request to an endpoint that reads and generates no job id.
Answered(endpoint, body, reply) ==
    /\ request' = [endpoint |-> endpoint, body |-> body]
    /\ response' = ToResponse(reply)
    /\ UNCHANGED <<job_storage, stored_files, generated, returned, args, ret>>

ConvertSkdupd ==
    /\ id_counter < MaxJobs
    /\ \E req \in ConversionRequests("edifact-skdupd") :
           Handled("POST /convert/skdupd", req, <<"skdupd", id_counter + 1>>,
                   convert_to_skdupd(req, <<"skdupd", id_counter + 1>>))

ConvertTsdupd ==
    /\ id_counter < MaxJobs
    /\ \E req \in ConversionRequests("edifact-tsdupd") :
           Handled("POST /convert/tsdupd", req, <<"tsdupd", id_counter + 1>>,
                   convert_to_tsdupd(req, <<"tsdupd", id_counter + 1>>))

ConvertGtfs ==
    /\ id_counter < MaxJobs
    /\ \E req \in ConversionRequests("gtfs") :
           Handled("POST /convert/gtfs", req, <<"gtfs", id_counter + 1>>,
                   convert_to_gtfs(req, <<"gtfs", id_counter + 1>>))

ConvertGtfsRealtime ==
    /\ id_counter < MaxJobs
    /\ \E req \in ConversionRequests("gtfs-realtime") :
           Handled("POST /convert/gtfs-realtime", req, <<"gtfs_rt", id_counter + 1>>,
                   convert_to_gtfs_realtime(req, <<"gtfs_rt", id_counter + 1>>))

Validate ==
    /\ id_counter < MaxJobs
    /\ \E req \in ValidationRequests :
           Handled("POST /validate", req, <<"val", id_counter + 1>>,
                   validate_data(req, <<"val", id_counter + 1>>))

GetJobStatus ==
    \E job_id \in JobIds :
        Answered("GET /status", job_id, get_job_status(job_storage, job_id))

HealthCheck == Answered("GET /health", None, health_check)

ProvisionTenant ==
    LET req == [tenant_id |-> "t1", organization_name |-> "org", plan |-> "starter"]
    IN  Answered("POST /provision", req, provision_tenant(req))

DownloadFile ==
    \E job_id \in {id \in JobIds : id[1] = "upload"} \cup {NeverGenerated},
       filename \in {NameJson} :
        Answered("GET /download", <<job_id, filename>>,
                 download_file(stored_files, job_id, filename))

Upload ==
    \E upload \in UploadRequests :
        /\ id_counter + upload_ids(upload.file) <= MaxJobs
        /\ \E done \in {upload_and_convert(upload.file, upload.output_format, id_counter)} :
               /\ request' = [endpoint |-> "POST /upload", body |-> upload]
               /\ response' = ToResponse(done.reply)
               /\ job_storage' = Apply(job_storage, done.writes)
               /\ stored_files' = stored_files \cup done.saved
               /\ returned' = IF done.reply.ok
                              THEN returned \cup {done.reply.value.job_id} ELSE returned
               /\ generated' = generated \cup done.ids
               /\ UNCHANGED <<args, ret>>

Next ==
    \/ ConvertSkdupd
    \/ ConvertTsdupd
    \/ ConvertGtfs
    \/ ConvertGtfsRealtime
    \/ Validate
    \/ GetJobStatus
    \/ HealthCheck
    \/ ProvisionTenant
    \/ DownloadFile
    \/ Upload

Spec == Init /\ [][Next]_vars

(***************************************************************************)
(* Conversion and validation requests handled concurrently: each handler    *)
(* runs as the steps "job id generated", "job_storage[job_id] = record" and *)
(* "result returned", and the steps of different requests interleave.       *)
(***************************************************************************)
\* One in-flight request per worker.
Workers == 1..MaxJobs

\* The requests sent: two that succeed on different endpoints, one validation
\* and one conversion that fails.
ConcurrentCalls ==
    {[endpoint |-> "POST /convert/skdupd",
      body |-> [input_data |-> d, output_format |-> "edifact-skdupd", options |-> <<>>]] :
        d \in {DocEmpty, DocFull}}
    \cup {[endpoint |-> "POST /convert/gtfs-realtime",
           body |-> [input_data |-> DocEmpty, output_format |-> "gtfs-realtime",
                     options |-> <<>>]],
          [endpoint |-> "POST /validate",
           body |-> [input_data |-> DocFull, format |-> JsonTransport,
                     validation_level |-> "standard"]]}

\* The prefix of the job id a handler generates.
JobPrefix(endpoint) ==
    CASE endpoint = "POST /convert/skdupd" -> "skdupd"
      [] endpoint = "POST /convert/gtfs-realtime" -> "gtfs_rt"
      [] endpoint = "POST /validate" -> "val"

\* The handler of an in-flight request, run with the job id it generated.
RunHandler(call) ==
    CASE call.endpoint = "POST /convert/skdupd" -> convert_to_skdupd(call.body, call.job_id)
      [] call.endpoint = "POST /convert/gtfs-realtime" ->
             convert_to_gtfs_realtime(call.body, call.job_id)
      [] call.endpoint = "POST /validate" -> validate_data(call.body, call.job_id)

InitConcurrent ==
    /\ job_storage = <<>>
    /\ stored_files = {}
    /\ generated = {}
    /\ returned = {}
    /\ request = [w \in Workers |-> None]
    /\ response = [w \in Workers |-> None]
    /\ args = None
    /\ ret = NotCalled

\* A handler starts: it generates its job id.
Accept(w) ==
    /\ request[w] = None
    /\ \E call \in ConcurrentCalls :
           /\ request' = [request EXCEPT ![w] =
                             [pc |-> "running", endpoint |-> call.endpoint,
                              body |-> call.body,
                              job_id |-> <<JobPrefix(call.endpoint), id_counter + 1>>]]
           /\ generated' = generated \cup {<<JobPrefix(call.endpoint), id_counter + 1>>}
    /\ UNCHANGED <<job_storage, stored_files, returned, response, args, ret>>

\* The handler builds its result and stores it; a handler that raised stores
\* nothing.
Store(w) ==
    /\ request[w] # None
    /\ request[w].pc = "running"
    /\ \E outcome \in {RunHandler(request[w])} :
           job_storage' = Apply(job_storage, outcome.writes)
    /\ request' = [request EXCEPT ![w].pc = "stored"]
    /\ UNCHANGED <<stored_files, generated, returned, response, args, ret>>

\* The handler returns its result, or its exception, to the caller.
Return(w) ==
    /\ request[w] # None
    /\ request[w].pc = "stored"
    /\ \E outcome \in {RunHandler(request[w])} :
           /\ response' = [response EXCEPT ![w] = ToResponse(outcome.reply)]
           /\ returned' = IF outcome.reply.ok
                          THEN returned \cup {outcome.reply.value.job_id} ELSE returned
    /\ request' = [request EXCEPT ![w].pc = "done"]
    /\ UNCHANGED <<job_storage, stored_files, generated, args, ret>>

NextConcurrent == \E w \in Workers : Accept(w) \/ Store(w) \/ Return(w)

SpecConcurrent == InitConcurrent /\ [][NextConcurrent]_vars

(***************************************************************************)
(* Properties.                                                             *)
(***************************************************************************)
\* The last request went to the given endpoint.
IsRequest(endpoint) == request # None /\ request.endpoint = endpoint

\* The top-level keys a conversion endpoint requires of input_data.
RequiredKeys(endpoint) ==
    CASE endpoint = "POST /convert/skdupd" -> {"agencies", "services"}
      [] endpoint = "POST /convert/tsdupd" -> {"stations"}
      [] endpoint = "POST /convert/gtfs" -> {"agencies", "stations", "services"}

KeyCheckedEndpoints ==
    {"POST /convert/skdupd", "POST /convert/tsdupd", "POST /convert/gtfs"}

\* The last request was a conversion whose input_data lacks a required key.
MissingRequiredKey ==
    /\ request # None
    /\ request.endpoint \in KeyCheckedEndpoints
    /\ RequiredKeys(request.endpoint) \ DOMAIN request.body.input_data # {}

\* C1: a request to /convert/skdupd, /convert/tsdupd or /convert/gtfs whose
\* input_data lacks a required top-level key is answered with HTTP 400.
C1_MissingKeyIs400 == MissingRequiredKey => response.status_code = 400

\* C2: GET /status answers 404 for a job id that no earlier successful
\* conversion or validation returned, and answers status 'completed' with
\* progress 100 for an id that a successful conversion returned.
C2_StatusLookup ==
    IsRequest("GET /status") =>
        /\ request.body \notin returned => response.status_code = 404
        /\ (request.body \in returned /\ request.body[1] # "val") =>
               /\ response.status_code = 200
               /\ response.body.job_id = request.body
               /\ response.body.status = "completed"
               /\ response.body.progress = 100

\* A status lookup of a conversion's id, returned by an earlier request,
\* after another lookup was refused.
C2_Witness ==
    /\ IsRequest("GET /status")
    /\ request.body \in returned
    /\ request.body[1] # "val"
    /\ response.status_code = 200
    /\ generated \ returned # {}

\* The last library call was an EDIFACT writer and it returned a message.
EdifactWritten == ret.fn \in {"write_skdupd", "write_tsdupd"} /\ ret.result.ok

\* The segments of the message the last writer call returned.
WrittenSegments ==
    IF ret.fn = "write_skdupd"
    THEN skdupd_segments(args.json_data, args.version, args.una)
    ELSE tsdupd_segments(args.json_data, args.version, args.una)

\* The position of the one segment of segs that carries the given tag.
TagIndex(segs, tag) == CHOOSE i \in 1..Len(segs) : Prefix(segs[i], 3) = tag

\* The first data element of a segment: the text between the first two
\* element separators.
FirstElement(segment, elem) ==
    LET seps == {i \in 1..Len(segment) : segment[i] = elem}
        first == CHOOSE i \in seps : \A j \in seps : i <= j
        second == CHOOSE i \in seps \ {first} : \A j \in seps \ {first} : i <= j
    IN  SubSeq(segment, first + 1, second - 1)

\* C3: in the output of write_skdupd and write_tsdupd the number carried by
\* the UNT segment is the number of segments strictly between UNH and UNT,
\* plus 2.
C3_UntCountsSegments ==
    EdifactWritten =>
        LET segs == WrittenSegments
            unh == TagIndex(segs, <<"U", "N", "H">>)
            unt == TagIndex(segs, <<"U", "N", "T">>)
        IN  /\ ret.result.value = Concat(segs)
            /\ unh < unt
            /\ FirstElement(segs[unt], ParseUna(args.una).elem) = Str((unt - unh - 1) + 2)

\* write_skdupd returned a message with at least four body segments.
C3_Witness ==
    /\ EdifactWritten
    /\ ret.fn = "write_skdupd"
    /\ TagIndex(WrittenSegments, <<"U", "N", "T">>)
           - TagIndex(WrittenSegments, <<"U", "N", "H">>) - 1 >= 4

\* The three required lists are present in the document and none is empty.
AllListsFilled(json_data) ==
    \A k \in {"agencies", "stations", "services"} :
        k \in DOMAIN json_data /\ Len(json_data[k]) > 0

\* C4: write_gtfs_static raises ValueError when any of agencies, stations or
\* services is missing or empty, and returns the mapping of the seven GTFS
\* files only when all three are present and non-empty.
C4_GtfsRequiresAllLists ==
    ret.fn = "write_gtfs_static" =>
        /\ ~AllListsFilled(args.json_data) =>
               ~ret.result.ok /\ ret.result.exc = "ValueError"
        /\ AllListsFilled(args.json_data) =>
               /\ ret.result.ok
               /\ DOMAIN ret.result.value = GtfsFileNames
               /\ Cardinality(DOMAIN ret.result.value) = 7

\* write_gtfs_static refused a document that has all three keys, one of them
\* with an empty list.
C4_Witness ==
    /\ ret.fn = "write_gtfs_static"
    /\ {"agencies", "stations", "services"} \subseteq DOMAIN args.json_data
    /\ Len(args.json_data.agencies) > 0
    /\ Len(args.json_data.services) = 0
    /\ ~ret.result.ok

RECURSIVE TotalVariants(_)
\* The number of variants over all services.
TotalVariants(services) ==
    IF services = <<>> THEN 0
    ELSE Len(Get(Head(services), "variants", <<>>)) + TotalVariants(Tail(services))

\* C5: trips.txt has one row per variant over all services, and each trip has
\* as many rows in stop_times.txt, under the same trip_id, as its service has
\* calls.
C5_TripsAndStopTimes ==
    (ret.fn = "write_gtfs_static" /\ ret.result.ok) =>
        LET services == args.json_data.services
            trips == ret.result.value["trips.txt"]
            stop_times == ret.result.value["stop_times.txt"]
            pairs == AllVariants(services)
        IN  /\ Len(trips) = TotalVariants(services)
            /\ \A n \in 1..Len(trips) :
                   Cardinality({i \in 1..Len(stop_times) : stop_times[i][1] = trips[n][3]})
                       = Len(Get(pairs[n].service, "calls", <<>>))

\* A feed with trips of two services, one of them with two calls.
C5_Witness ==
    /\ ret.fn = "write_gtfs_static"
    /\ ret.result.ok
    /\ Len(ret.result.value["trips.txt"]) >= 3
    /\ Len(ret.result.value["stop_times.txt"]) >= 4
    /\ \E n \in 1..Len(ret.result.value["trips.txt"]) :
           ret.result.value["trips.txt"][n][1] # ret.result.value["trips.txt"][1][1]

RECURSIVE Unescape(_, _)
\* Un-escaping: each release character is dropped and the character after
\* it is kept.
Unescape(text, s) ==
    IF text = <<>> THEN <<>>
    ELSE IF Head(text) = s.rel /\ Len(text) >= 2
         THEN <<text[2]>> \o Unescape(SubSeq(text, 3, Len(text)), s)
    ELSE IF Head(text) = s.rel THEN <<>>
    ELSE <<Head(text)>> \o Unescape(Tail(text), s)

\* C6: for any text and the separator set parsed from any UNA string the
\* writers accept, escape followed by un-escaping with the same separator
\* set gives back the text.
C6_EscapeRoundTrip ==
    ret.fn = "escape" => Unescape(ret.result, ParseUna(args.una)) = args.value

\* C7: every record of the job table has status 'completed' and progress
\* 100, so GET /status reports progress 100 for every stored id, the ids of
\* validations included.
C7_EveryJobProgress100 ==
    /\ \A job_id \in DOMAIN job_storage :
           /\ "status" \in DOMAIN job_storage[job_id]
           /\ job_storage[job_id].status = "completed"
           /\ "progress" \in DOMAIN job_storage[job_id]
           /\ job_storage[job_id].progress = 100
    /\ (IsRequest("GET /status") /\ response.status_code = 200) =>
           response.body.progress = 100

\* The upload carries no filename or one that does not end in ".json".
NotJsonName(file) ==
    \/ file.filename = None
    \/ LET name == file.filename.some
       IN  Len(name) < 5
           \/ SubSeq(name, Len(name) - 4, Len(name)) # <<".", "j", "s", "o", "n">>

\* The ids generated by the step.
NewIds == generated' \ generated

\* C8: an upload whose filename is absent or does not end in '.json' is
\* answered with 400 and nothing else happens: no file is stored, the job
\* table is unchanged and no converter runs (no job id but the upload's own
\* is generated, none is returned).  For a '.json' upload, the error of the
\* JSON read or of the delegated conversion handler is the response, with
\* its own status code.
C8_UploadRejectsAndPassesErrors ==
    [][(request' # None /\ request'.endpoint = "POST /upload") =>
          LET file == request'.body.file
              made == Delegate(request'.body.output_format,
                               [input_data |-> file.content.document,
                                output_format |-> request'.body.output_format,
                                options |-> <<>>],
                               <<PrefixOf(request'.body.output_format), id_counter + 2>>)
          IN  /\ NotJsonName(file) =>
                     /\ response'.status_code = 400
                     /\ stored_files' = stored_files
                     /\ job_storage' = job_storage
                     /\ returned' = returned
                     /\ \A id \in NewIds : id[1] = "upload"
              /\ (~NotJsonName(file) /\ ~read_json_file(file.content).ok) =>
                     response' = ToResponse(read_json_file(file.content))
              /\ (~NotJsonName(file) /\ file.content.kind = "object"
                      /\ ~made.reply.ok) =>
                     /\ response'.status_code = made.reply.status_code
                     /\ response'.detail = made.reply.detail
    ]_vars

\* An upload named "a.txt" was refused while the job table held a record.
C8_Witness ==
    /\ IsRequest("POST /upload")
    /\ request.body.file.filename = Some(NameTxt)
    /\ response.status_code = 400
    /\ job_storage # <<>>
    /\ Cardinality(generated) = 2

ConversionEndpoints ==
    {"POST /convert/skdupd", "POST /convert/tsdupd", "POST /convert/gtfs",
     "POST /convert/gtfs-realtime"}

\* What the writer of a conversion request raised, for a request that got
\* as far as the writer and whose writer raised; None otherwise.
WriterFailure(req) ==
    LET d == req.body.input_data
        version == Get(req.body.options, "version", VersionCurrent)
        una == Get(req.body.options, "una", DefaultUna)
        written ==
            CASE req.endpoint = "POST /convert/skdupd" ->
                     IF {"agencies", "services"} \subseteq DOMAIN d
                     THEN write_skdupd(d, version, una) ELSE Ok(<<>>)
              [] req.endpoint = "POST /convert/tsdupd" ->
                     IF "stations" \in DOMAIN d
                     THEN write_tsdupd(d, version, una) ELSE Ok(<<>>)
              [] req.endpoint = "POST /convert/gtfs" ->
                     IF {"agencies", "stations", "services"} \subseteq DOMAIN d
                     THEN write_gtfs_static(d, Today) ELSE Ok(<<>>)
              [] OTHER -> Ok(<<>>)
    IN  IF written.ok THEN None ELSE written

\* C9: a conversion request that fails is answered with an error that
\* carries the failure's description and leaves the job table as it was; a
\* request whose writer raises fails; a record enters the table only as the
\* complete result that is also the response, so the table holds exactly
\* the ids that were returned and never the id of a failed request.
C9_NoPartialSuccess ==
    /\ [](DOMAIN job_storage = returned)
    /\ [][(request' # None /\ request'.endpoint \in ConversionEndpoints) =>
             /\ WriterFailure(request') # None =>
                    /\ response'.status_code = 500
                    /\ response'.detail.cause = WriterFailure(request')
             /\ response'.status_code # 200 =>
                    /\ job_storage' = job_storage
                    /\ returned' = returned
                    /\ response'.detail.cause # None
                    /\ NewIds \cap DOMAIN job_storage' = {}
             /\ response'.status_code = 200 =>
                    /\ NewIds = {response'.body.job_id}
                    /\ job_storage' =
                           [id \in DOMAIN job_storage \cup NewIds |->
                               IF id \in NewIds THEN response'.body ELSE job_storage[id]]
      ]_vars

\* A conversion failed in the writer (an empty required list or an invalid
\* UNA string) while the job table held the record of an earlier request.
C9_Witness ==
    /\ request # None
    /\ request.endpoint \in ConversionEndpoints
    /\ WriterFailure(request) # None
    /\ response.status_code = 500
    /\ job_storage # <<>>
    /\ generated \ returned # {}

\* The last library call was one of the two EDIFACT writers.
EdifactCalled == ret.fn \in {"write_skdupd", "write_tsdupd"}

\* The writer of the last library call, applied to another UNA string.
WriteAgain(una) ==
    IF ret.fn = "write_skdupd"
    THEN write_skdupd(args.json_data, args.version, una)
    ELSE write_tsdupd(args.json_data, args.version, una)

\* The UNA string is exactly nine characters that start with "UNA".
WellFormedUna(una) ==
    Len(una) = 9 /\ una[1] = "U" /\ una[2] = "N" /\ una[3] = "A"

\* Characters tried at position 7 of the UNA string: one that differs from
\* the character the string has there.
ReservedChars(una) == IF una[8] = " " THEN {"*"} ELSE {" "}

\* C10: write_skdupd and write_tsdupd refuse a UNA string that is not nine
\* characters starting with 'UNA' with an error that names the string,
\* whatever the document holds; for an accepted string the message opens
\* with the string itself, is built with the separators at its positions 3,
\* 4, 5, 6 and 8 (counted from 0), and changing position 7 changes nothing
\* but that opening.
C10_UnaCheckedFirst ==
    EdifactCalled =>
        /\ ~WellFormedUna(args.una) =>
               /\ ~ret.result.ok
               /\ ret.result.exc = "ValueError"
               /\ ret.result.msg = "Invalid UNA string: "
               /\ ret.result.arg = args.una
        /\ ret.result.ok =>
               LET una == args.una
                   s == Sep(una[4], una[5], una[6], una[7], una[9])
                   built ==
                       IF ret.fn = "write_skdupd"
                       THEN interchange_segments(args.json_data,
                                <<"S", "K", "D", "U", "P", "D">>,
                                map_skdupd_segments(args.json_data.agencies,
                                                    args.json_data.services, s),
                                args.version, una, s)
                       ELSE interchange_segments(args.json_data,
                                <<"T", "S", "D", "U", "P", "D">>,
                                map_tsdupd_segments(args.json_data.stations, s),
                                args.version, una, s)
               IN  /\ WellFormedUna(una)
                   /\ Prefix(ret.result.value, 9) = una
                   /\ SubSeq(ret.result.value, 10, 20)
                          = <<"U", "N", "B", una[5], "U", "N", "O", "C", una[4], "3", una[5]>>
                   /\ ret.result.value[Len(ret.result.value)] = una[9]
                   /\ ret.result.value = Concat(built)
                   /\ \A c \in ReservedChars(una) :
                          LET other == [una EXCEPT ![8] = c]
                          IN  WriteAgain(other)
                                  = Ok(other \o SubSeq(ret.result.value, 10,
                                                      Len(ret.result.value)))

\* A writer refused an invalid UNA string for a document whose required
\* lists are missing or empty.
C10_Witness ==
    /\ EdifactCalled
    /\ ~WellFormedUna(args.una)
    /\ ~ret.result.ok
    /\ ret.result.arg = args.una
    /\ \/ "agencies" \notin DOMAIN args.json_data
       \/ "stations" \notin DOMAIN args.json_data
       \/ Len(args.json_data.stations) = 0

\* The (name, url, version) triple of a recorded generate_deterministic_ref
\* call; an absent name or url reads as the empty text.
RefKey(call) ==
    <<Get(call.publisher, "name", <<>>), Get(call.publisher, "url", <<>>), call.version>>

HexSet == {HexChars[i] : i \in 1..Len(HexChars)}

C12_GtfsStaticSameAtAnyTime ==
    (ret.fn = "write_gtfs_static" /\ ret.result.ok) =>
        \A today \in Dates : \A f \in GtfsFileNames :
            write_gtfs_static(args.json_data, today).value[f] = ret.result.value[f]

\* The tags of the body segments (those between UNH and UNT) of the message the
\* last writer call returned.
BodyTags ==
    LET segs == WrittenSegments
    IN  [i \in 1..(Len(segs) - 5) |-> Prefix(segs[i + 3], 3)]

RECURSIVE StationTagsByPresence(_)
\* LOC for every station, followed by GIS when the station has both keys.
StationTagsByPresence(stations) ==
    IF stations = <<>> THEN <<>>
    ELSE (IF {"lat", "lon"} \subseteq DOMAIN Head(stations)
          THEN << <<"L", "O", "C">>, <<"G", "I", "S">> >>
          ELSE << <<"L", "O", "C">> >>)
         \o StationTagsByPresence(Tail(stations))

\* C13: in the TSDUPD body every station yields one LOC segment, in input
\* order, immediately followed by one GIS segment if and only if the station
\* has both a lat and a lon value, whatever the values are.
C13_GisIffLatLonPresent ==
    (EdifactWritten /\ ret.fn = "write_tsdupd") =>
        BodyTags = StationTagsByPresence(args.json_data.stations)

\* The weekday flags of a calendar that are true, Monday first, as '1'/'0'.
WeekdayBits(calendar) ==
    [i \in 1..7 |-> IF DayNames[i] \in DOMAIN calendar /\ calendar[DayNames[i]] = TRUE
                    THEN "1" ELSE "0"]

\* The FTX segment with qualifier CDV a variant is to get: none when no weekday
\* flag of its calendar is true.
CdvOf(variant, s) ==
    LET calendar == Get(variant, "calendar", <<>>)
    IN  IF \E i \in 1..7 : WeekdayBits(calendar)[i] = "1"
        THEN << <<"F", "T", "X", s.elem, "C", "D", "V", s.elem, s.elem, s.elem>>
                \o WeekdayBits(calendar) \o <<s.seg>> >>
        ELSE <<>>

ServiceCdv(service, s) == FlatMap(CdvOf, Get(service, "variants", <<>>), s)

\* The segments of the written message that are FTX segments with qualifier CDV.
WrittenCdv ==
    LET s == ParseUna(args.una)
        IsCdv(segment) == Prefix(segment, 7) = <<"F", "T", "X", s.elem, "C", "D", "V">>
    IN  SelectSeq(WrittenSegments, IsCdv)

\* C14: the FTX segments with qualifier CDV of an SKDUPD message are, in
\* order, one for each variant calendar with at least one weekday flag true and
\* none for the others, and the text of each is the 7-character string whose
\* i-th character is '1' exactly when the i-th day of Monday..Sunday is true.
C14_DayOfWeekBits ==
    (EdifactWritten /\ ret.fn = "write_skdupd") =>
        WrittenCdv = FlatMap(ServiceCdv, args.json_data.services, ParseUna(args.una))

\* write_skdupd wrote a service whose first variant runs on Wednesday and
\* Sunday only and whose second variant has no day set: one CDV segment, with
\* the text 0010001.
C14_Witness ==
    /\ EdifactWritten
    /\ ret.fn = "write_skdupd"
    /\ args.json_data.services = <<ServiceTwoVariants>>
    /\ Len(WrittenCdv) = 1
    /\ SubSeq(WrittenCdv[1], 11, 17) = <<"0", "0", "1", "0", "0", "0", "1">>

\* The body segments (those between UNH and UNT) of the written message.
WrittenBody == SubSeq(WrittenSegments, 4, Len(WrittenSegments) - 2)

\* The position in the body of the k-th segment that carries the given tag.
NthTagged(body, tag, k) ==
    CHOOSE i \in 1..Len(body) :
        /\ Prefix(body[i], 3) = tag
        /\ Cardinality({j \in 1..i : Prefix(body[j], 3) = tag}) = k

TagCount(body, tag) == Cardinality({i \in 1..Len(body) : Prefix(body[i], 3) = tag})

\* The carrier id of a service: its agency_id, empty when it has none.
CarrierOf(service) == Get(service, "agency_id", <<>>)

\* The segment is the NAD segment of the given carrier.
IsNadOf(segment, carrier, s) ==
    LET head == <<"N", "A", "D", s.elem, "C", "A", s.elem>> \o carrier \o <<s.elem>>
    IN  Prefix(segment, Len(head)) = head

\* Each distinct non-empty carrier id has exactly one NAD segment, immediately
\* before the TDT of the first service that uses the carrier, and no other TDT
\* is preceded by a NAD.
NadAtFirstUse(services, body, s) ==
    /\ TagCount(body, <<"T", "D", "T">>) = Len(services)
    /\ TagCount(body, <<"N", "A", "D">>)
           = Cardinality({CarrierOf(services[k]) : k \in 1..Len(services)} \ {<<>>})
    /\ \A k \in 1..Len(services) :
           LET tdt == NthTagged(body, <<"T", "D", "T">>, k)
               first_use == /\ CarrierOf(services[k]) # <<>>
                            /\ \A j \in 1..(k - 1) :
                                   CarrierOf(services[j]) # CarrierOf(services[k])
           IN  IF first_use
               THEN tdt > 1 /\ IsNadOf(body[tdt - 1], CarrierOf(services[k]), s)
               ELSE tdt = 1 \/ Prefix(body[tdt - 1], 3) # <<"N", "A", "D">>

\* One agency and one service that has neither variants nor calls.
SingleBareService(json_data) ==
    /\ Len(json_data.agencies) = 1
    /\ Len(json_data.services) = 1
    /\ Get(json_data.services[1], "variants", <<>>) = <<>>
    /\ Get(json_data.services[1], "calls", <<>>) = <<>>

\* The body is one NAD, then one TDT, with no RFF, DTM or LOC segment.
NadThenTdtOnly(body) ==
    /\ Len(body) >= 2
    /\ Prefix(body[1], 3) = <<"N", "A", "D">>
    /\ Prefix(body[2], 3) = <<"T", "D", "T">>
    /\ \A i \in 3..Len(body) :
           Prefix(body[i], 3) \notin {<<"N", "A", "D">>, <<"T", "D", "T">>,
                                     <<"R", "F", "F">>, <<"D", "T", "M">>,
                                     <<"L", "O", "C">>}

\* C15 as stated: in the SKDUPD body each distinct non-empty carrier id has
\* exactly one NAD segment, immediately before the TDT of the first service
\* that uses it, and every document with one agency and one service without
\* variants and calls yields NAD then TDT and no RFF, DTM or LOC segment.
C15_NadThenTdtForEverySingleService ==
    (EdifactWritten /\ ret.fn = "write_skdupd") =>
        /\ NadAtFirstUse(args.json_data.services, WrittenBody, ParseUna(args.una))
        /\ SingleBareService(args.json_data) => NadThenTdtOnly(WrittenBody)

\* C15: in the SKDUPD body each distinct non-empty carrier id has exactly one
\* NAD segment, immediately before the TDT of the first service that uses it;
\* a document with one agency and one service without variants and calls
\* yields NAD then TDT and no RFF, DTM or LOC segment when that service has a
\* non-empty agency_id, and a TDT without any NAD when it has none.
C15_NadOncePerCarrier ==
    (EdifactWritten /\ ret.fn = "write_skdupd") =>
        /\ NadAtFirstUse(args.json_data.services, WrittenBody, ParseUna(args.una))
        /\ SingleBareService(args.json_data) =>
               IF CarrierOf(args.json_data.services[1]) # <<>>
               THEN NadThenTdtOnly(WrittenBody)
               ELSE /\ Prefix(WrittenBody[1], 3) = <<"T", "D", "T">>
                    /\ TagCount(WrittenBody, <<"N", "A", "D">>) = 0

\* write_skdupd wrote two services of the same carrier: the body starts with
\* the carrier's NAD and holds two TDT segments and no second NAD.
C15_Witness ==
    /\ EdifactWritten
    /\ ret.fn = "write_skdupd"
    /\ args.json_data.services = <<ServiceMinimal, ServiceTwoVariants>>
    /\ IsNadOf(WrittenBody[1], <<"A", "1">>, ParseUna(args.una))
    /\ TagCount(WrittenBody, <<"N", "A", "D">>) = 1
    /\ TagCount(WrittenBody, <<"T", "D", "T">>) = 2

RealtimeFeedNames == {"vehicle_positions", "trip_updates", "alerts"}

\* C16: write_gtfs_realtime returns for every input document the same mapping,
\* with exactly the keys vehicle_positions, trip_updates and alerts, all bound
\* to one fixed byte sequence; and every answer of POST /convert/gtfs-realtime
\* is a result whose results.warnings is 1 and whose metadata carries the
\* placeholder warning.
C16_RealtimeIgnoresInput ==
    IsRequest("POST /convert/gtfs-realtime") =>
        LET feeds == write_gtfs_realtime(request.body.input_data)
        IN  /\ \A d \in Docs \cup HttpDocs : write_gtfs_realtime(d) = feeds
            /\ DOMAIN feeds = RealtimeFeedNames
            /\ \A f \in RealtimeFeedNames : feeds[f] = feeds["alerts"]
            /\ response.status_code = 200
            /\ response.body.results.warnings = 1
            /\ response.body.metadata.warnings =
                   <<"This is a placeholder implementation for GTFS-Realtime">>
            /\ \A f \in RealtimeFeedNames :
                   response.body.output.feeds[f].bytes = Len(feeds[f])

\* POST /convert/gtfs-realtime answered a request that carries the full
\* document, after a request with another document was answered.
C16_Witness ==
    /\ IsRequest("POST /convert/gtfs-realtime")
    /\ request.body.input_data = DocFull
    /\ response.status_code = 200
    /\ \E id \in DOMAIN job_storage :
           id[1] = "gtfs_rt" /\ id # response.body.job_id

\* Every worker's request has completed.
AllCompleted == \A w \in Workers : request[w] # None /\ request[w].pc = "done"

\* The workers whose caller received a result.
Succeeded == {w \in Workers : response[w] # None /\ response[w].status_code = 200}

\* C17: under every interleaving of the steps of concurrently handled
\* conversion and validation requests with different job ids, the record of a
\* request whose caller received a result is in the job table under the
\* request's job id and equals that result, whatever the other requests have
\* done since; and once all requests have completed the job table holds
\* exactly one record for each successful request.
C17_ConcurrentRecordsKept ==
    /\ \A w \in Succeeded :
           /\ request[w].job_id \in DOMAIN job_storage
           /\ job_storage[request[w].job_id] = response[w].body
           /\ response[w].body.job_id = request[w].job_id
    /\ AllCompleted =>
           /\ DOMAIN job_storage = {request[w].job_id : w \in Succeeded}
           /\ Cardinality(DOMAIN job_storage) = Cardinality(Succeeded)

\* All requests have completed: worker 1's request was the first to start,
\* and every caller received a result, each from a different endpoint.
C17_Witness ==
    /\ AllCompleted
    /\ Succeeded = Workers
    /\ request[1].job_id[2] = 1
    /\ \A v, w \in Workers : v # w => request[v].endpoint # request[w].endpoint

ReadOnlyEndpoints == {"GET /status", "GET /health", "GET /download", "POST /provision"}

\* C18: no request removes an entry of the job table, the requests to
\* GET /status, GET /health, GET /download and POST /provision leave the table
\* as it was, and a job id whose status lookup succeeds before a request still
\* has a successful lookup after it.
C18_JobTableOnlyGrows ==
    [][/\ DOMAIN job_storage \subseteq DOMAIN job_storage'
       /\ request'.endpoint \in ReadOnlyEndpoints => job_storage' = job_storage
       /\ \A id \in JobIds :
              get_job_status(job_storage, id).ok => get_job_status(job_storage', id).ok
      ]_vars

\* The status of the first job is looked up, with success, after a later
\* request has stored a second job.
C18_Witness ==
    /\ IsRequest("GET /status")
    /\ response.status_code = 200
    /\ request.body[2] = 1
    /\ Cardinality(DOMAIN job_storage) = 2

\* The first non-empty value among train_number, route_short_name and id.
FirstNonEmptyNumber(service) ==
    IF Get(service, "train_number", <<>>) # <<>> THEN service.train_number
    ELSE IF Get(service, "route_short_name", <<>>) # <<>> THEN service.route_short_name
    ELSE Get(service, "id", <<>>)

\* C19: for every service the SKDUPD body holds exactly one TDT segment, with
\* qualifier 20 and, as identifier, the first non-empty value among
\* train_number, route_short_name and id; a service whose train_number is
\* present but empty gets its route_short_name.
C19_TdtFirstNonEmpty ==
    (EdifactWritten /\ ret.fn = "write_skdupd") =>
        /\ TagCount(WrittenBody, <<"T", "D", "T">>) = Len(args.json_data.services)
        /\ \A k \in 1..Len(args.json_data.services) :
               WrittenBody[NthTagged(WrittenBody, <<"T", "D", "T">>, k)]
                   = seg(<<"T", "D", "T">>,
                         <<Simple(<<"2", "0">>),
                           Simple(FirstNonEmptyNumber(args.json_data.services[k]))>>,
                         ParseUna(args.una))

\* The text holds sub as a run of consecutive characters.
Contains(text, sub) ==
    \E i \in 1..(Len(text) - Len(sub) + 1) : SubSeq(text, i, i + Len(sub) - 1) = sub

\* The timestamp the UNB segment is to carry: the publisher's fixed_timestamp
\* when one is supplied, 240101:0000 otherwise.
UnbTimestamp(json_data) ==
    LET publisher == Get(json_data, "publisher", <<>>)
    IN  IF Get(publisher, "fixed_timestamp", <<>>) # <<>>
        THEN publisher.fixed_timestamp
        ELSE <<"2", "4", "0", "1", "0", "1", ":", "0", "0", "0", "0">>

\* C20: the UNB segment of a written message holds, as one element, the
\* publisher's fixed_timestamp when one is supplied and 240101:0000 otherwise,
\* in the form YYMMDD:HHMM: with the default separators and no fixed_timestamp
\* the UNB text contains the element 240101:0000 exactly.
C20_UnbTimestampVerbatim ==
    EdifactWritten =>
        LET s == ParseUna(args.una)
        IN  Contains(WrittenSegments[2],
                     <<s.elem>> \o UnbTimestamp(args.json_data) \o <<s.elem>>)

\* The last data element of a segment: the text between the last element
\* separator and the segment terminator.
LastElement(segment, elem) ==
    LET seps == {i \in 1..Len(segment) : segment[i] = elem}
        last == CHOOSE i \in seps : \A j \in seps : j <= i
    IN  SubSeq(segment, last + 1, Len(segment) - 1)

ServiceTags == {<<"U", "N", "B">>, <<"U", "N", "H">>, <<"U", "N", "T">>, <<"U", "N", "Z">>}

\* C21: a written SKDUPD or TSDUPD interchange is the UNA string verbatim,
\* then one UNB, one UNH, the body segments, one UNT and one UNZ last, each of
\* the four exactly once; UNT carries the message reference of UNH, which is
\* the interchange reference of UNB followed by 01; UNZ carries the
\* interchange reference of UNB and the message count 1.
C21_InterchangeOrder ==
    EdifactWritten =>
        LET segs == WrittenSegments
            n == Len(segs)
            elem == ParseUna(args.una).elem
            ref == LastElement(segs[2], elem)
        IN  /\ ret.result.value = Concat(segs)
            /\ segs[1] = args.una
            /\ n >= 5
            /\ Prefix(segs[2], 3) = <<"U", "N", "B">>
            /\ Prefix(segs[3], 3) = <<"U", "N", "H">>
            /\ Prefix(segs[n - 1], 3) = <<"U", "N", "T">>
            /\ Prefix(segs[n], 3) = <<"U", "N", "Z">>
            /\ \A i \in 4..(n - 2) : Prefix(segs[i], 3) \notin ServiceTags
            /\ Len(ref) = 12
            /\ FirstElement(segs[3], elem) = ref \o <<"0", "1">>
            /\ LastElement(segs[n - 1], elem) = FirstElement(segs[3], elem)
            /\ LastElement(segs[n], elem) = ref
            /\ FirstElement(segs[n], elem) = <<"1">>

\* write_tsdupd wrote, under a UNA string with '*' as terminator, a message
\* with two body segments or more for a document that names its publisher.
C21_Witness ==
    /\ EdifactWritten
    /\ ret.fn = "write_tsdupd"
    /\ args.una = UnaStarTerminator
    /\ "publisher" \in DOMAIN args.json_data
    /\ Len(WrittenSegments) >= 7

\* The text is an 8-digit numeric string.
IsEightDigits(text) ==
    /\ Len(text) = 8
    /\ \A i \in 1..8 : text[i] \in {"0", "1", "2", "3", "4", "5", "6", "7", "8", "9"}

\* The DTM segments a variant's calendar bounds are to get: 324 for an 8-digit
\* start_date, 325 for an 8-digit end_date, nothing for any other value.
BoundDtmOf(variant, s) ==
    LET calendar == Get(variant, "calendar", <<>>)
        Dtm(key, qualifier) ==
            IF key \in DOMAIN calendar /\ IsEightDigits(calendar[key])
            THEN << <<"D", "T", "M", s.elem>> \o qualifier \o <<s.comp>> \o calendar[key]
                    \o <<s.comp, "1", "0", "2", s.seg>> >>
            ELSE <<>>
    IN  Dtm("start_date", <<"3", "2", "4">>) \o Dtm("end_date", <<"3", "2", "5">>)

ServiceBoundDtm(service, s) == FlatMap(BoundDtmOf, Get(service, "variants", <<>>), s)

\* C22: a calendar bound is emitted only if it is an 8-digit numeric string.
\* The SKDUPD body of the document holds DTM 324 and DTM 325 exactly for such
\* bounds, and every start and end date in the rows of calendar.txt and of
\* feed_info.txt written for the document is an 8-digit numeric string.
C22_OnlyEightDigitBounds ==
    (ret.fn = "write_gtfs_static" /\ ret.result.ok) =>
        LET s == ParseUna(DefaultUna)
            body == map_skdupd_segments(args.json_data.agencies,
                                        args.json_data.services, s)
            IsBoundDtm(segment) ==
                Prefix(segment, 7) \in {<<"D", "T", "M", s.elem, "3", "2", "4">>,
                                        <<"D", "T", "M", s.elem, "3", "2", "5">>}
            calendar == ret.result.value["calendar.txt"]
            feed_info == ret.result.value["feed_info.txt"]
        IN  /\ SelectSeq(body, IsBoundDtm)
                   = FlatMap(ServiceBoundDtm, args.json_data.services, s)
            /\ \A i \in 1..Len(calendar) :
                   IsEightDigits(calendar[i][9]) /\ IsEightDigits(calendar[i][10])
            /\ \A i \in 1..Len(feed_info) :
                   IsEightDigits(feed_info[i][4]) /\ IsEightDigits(feed_info[i][5])

\* The calendar.txt row of a variant: its id, its seven weekday flags and its
\* two dates, 20240101 and 20241231 where the calendar has none.
CalendarRowOf(variant) ==
    LET calendar == Get(variant, "calendar", <<>>)
        Flag(day) == IF day \in DOMAIN calendar /\ calendar[day] = TRUE
                     THEN <<"1">> ELSE <<"0">>
    IN  <<variant.id, Flag("monday"), Flag("tuesday"), Flag("wednesday"),
          Flag("thursday"), Flag("friday"), Flag("saturday"), Flag("sunday"),
          Get(calendar, "start_date", <<"2", "0", "2", "4", "0", "1", "0", "1">>),
          Get(calendar, "end_date", <<"2", "0", "2", "4", "1", "2", "3", "1">>)>>

\* The positions, in document order over all services, of the variants that
\* are the first to carry their non-empty id.
FirstCarriers(pairs) ==
    {n \in 1..Len(pairs) :
        /\ Get(pairs[n].variant, "id", <<>>) # <<>>
        /\ \A m \in 1..(n - 1) :
               Get(pairs[m].variant, "id", <<>>) # pairs[n].variant.id}

ValidationLevels == {"standard", "strict"}

\* C24: the verdict of POST /validate does not depend on the validation
\* level: the request answered gets the is_valid, the error list and the
\* recommendations that the same request with the other level gets; is_valid
\* is false exactly when the format is json-transport and the input document
\* has no 'agencies' key.
C24_VerdictIgnoresLevel ==
    IsRequest("POST /validate") =>
        /\ response.status_code = 200
        /\ response.body.is_valid
               = ~(request.body.format = "json-transport"
                   /\ "agencies" \notin DOMAIN request.body.input_data)
        /\ \A level \in ValidationLevels :
               LET other == validate_data([request.body EXCEPT !.validation_level = level],
                                          response.body.job_id).reply
               IN  /\ other.ok
                   /\ other.value.is_valid = response.body.is_valid
                   /\ other.value.summary.errors = response.body.summary.errors
                   /\ other.value.recommendations = response.body.recommendations

\* POST /validate answered a strict request for a json-transport document
\* without 'agencies': the verdict is negative.
C24_Witness ==
    /\ IsRequest("POST /validate")
    /\ request.body.validation_level = "strict"
    /\ request.body.format = "json-transport"
    /\ "agencies" \notin DOMAIN request.body.input_data
    /\ response.status_code = 200
    /\ ~response.body.is_valid

\* Letters, digits, underscore, hyphen and dot.
SafeFilenameChars ==
    {"a", "b", "c", "j", "s", "o", "n", "t", "x", "0", "1", "_", "-", "."}

\* C25: the sanitized filename holds only letters, digits, underscore, hyphen
\* and dot, holds at least one dot, and is at most 100 characters long,
\* whatever the lengths of the name part and of the extension of the input.
C25_SanitizedWithinLimit ==
    ret.fn = "_sanitize_filename" =>
        /\ \A i \in 1..Len(ret.result) : ret.result[i] \in SafeFilenameChars
        /\ \E i \in 1..Len(ret.result) : ret.result[i] = "."
        /\ Len(ret.result) <= 100

\* C26: in every validation result the record counts are consistent:
\* 0 <= summary.valid_records <= summary.total_records, for any input
\* document, an empty one included, and any format.
C26_ValidRecordsInRange ==
    (IsRequest("POST /validate") /\ response.status_code = 200) =>
        /\ 0 <= response.body.summary.valid_records
        /\ response.body.summary.valid_records <= response.body.summary.total_records

\* C27: in a generated GTFS feed every service_id of a data row of trips.txt
\* is the service_id of a row of calendar.txt, for every accepted document,
\* those with variants without an id or with only a 'service_id' key included.
C27_TripsReferToCalendar ==
    (ret.fn = "write_gtfs_static" /\ ret.result.ok) =>
        LET trips == ret.result.value["trips.txt"]
            calendar == ret.result.value["calendar.txt"]
        IN  \A i \in 1..Len(trips) :
                \E j \in 1..Len(calendar) : calendar[j][1] = trips[i][2]

\* The output format and the output types of the endpoint that generates job
\* ids with the given prefix.
ProducedBy(prefix) ==
    CASE prefix = "skdupd" -> [format |-> "edifact-skdupd", types |-> {"EDIFACT_SKDUPD"}]
      [] prefix = "tsdupd" -> [format |-> "edifact-tsdupd", types |-> {"EDIFACT_TSDUPD"}]
      [] prefix = "gtfs" -> [format |-> "gtfs", types |-> {"GTFS", "GTFS_ZIP"}]
      [] prefix = "gtfs_rt" -> [format |-> "gtfs-realtime", types |-> {"GTFS_REALTIME"}]

\* C28: in every stored conversion record the recorded output_format names
\* the format that was produced: a record of /convert/skdupd has output_format
\* edifact-skdupd and output type EDIFACT_SKDUPD, and likewise for the other
\* three conversion endpoints, whatever output_format the request carried.
C28_RecordedFormatIsProduced ==
    \A id \in DOMAIN job_storage :
        id[1] \in {"skdupd", "tsdupd", "gtfs", "gtfs_rt"} =>
            /\ job_storage[id].output.type \in ProducedBy(id[1]).types
            /\ job_storage[id].output_format = ProducedBy(id[1]).format

\* C29: after a successful POST /upload the returned job id carries the
\* delegated converter's prefix and is a key of the job table; no upload job id
\* is ever a key of the job table, so GET /status for one answers 404; and the
\* uploaded file is stored under the upload id, never under a returned job id.
C29_UploadIdApartFromJobId ==
    /\ \A id \in generated :
           id[1] = "upload" =>
               /\ id \notin DOMAIN job_storage
               /\ ~get_job_status(job_storage, id).ok
               /\ get_job_status(job_storage, id).status_code = 404
    /\ (IsRequest("GET /status") /\ request.body[1] = "upload") =>
           response.status_code = 404
    /\ \A path \in stored_files :
           /\ path[1][1] = "upload"
           /\ path[1] \in generated
           /\ path[1] \notin returned
    /\ (IsRequest("POST /upload") /\ response.status_code = 200) =>
           /\ response.body.job_id[1] = PrefixOf(request.body.output_format)
           /\ response.body.job_id \in DOMAIN job_storage
           /\ \E path \in stored_files :
                  /\ path = save_uploaded_file(request.body.file, path[1])
                  /\ path[1][1] = "upload"
                  /\ path[1][2] + 1 = response.body.job_id[2]

\* A successful upload: a result was returned and the file is stored.
C29_Witness ==
    /\ IsRequest("POST /upload")
    /\ response.status_code = 200
    /\ response.body.job_id \in DOMAIN job_storage
    /\ stored_files # {}

\* The segments of the interchange that an EDIFACT endpoint generated for the
\* request it answered, the UNA advisory included.
AnsweredSegments ==
    LET version == Get(request.body.options, "version", VersionCurrent)
        una == Get(request.body.options, "una", DefaultUna)
    IN  IF request.endpoint = "POST /convert/skdupd"
        THEN skdupd_segments(request.body.input_data, version, una)
        ELSE tsdupd_segments(request.body.input_data, version, una)

\* C30: the segment statistic reported by /convert/skdupd and /convert/tsdupd
\* (results.edifact_segments and output.segments) is the number of segments
\* of the generated interchange counting the UNA advisory, which is the count
\* carried by UNT plus 3, for every accepted document and UNA string.
C30_SegmentStatisticCountsSegments ==
    ((IsRequest("POST /convert/skdupd") \/ IsRequest("POST /convert/tsdupd"))
        /\ response.status_code = 200) =>
        /\ response.body.results.edifact_segments = Len(AnsweredSegments)
        /\ response.body.output.segments = Len(AnsweredSegments)
        /\ Len(AnsweredSegments)
               = segment_count_of(SubSeq(AnsweredSegments, 4, Len(AnsweredSegments) - 2)) + 3

====
